---- MODULE Spec2Model ----
(***************************************************************************)
(* CodeLens tools (src/server.py, src/github.py, src/tools/*.py).          *)
(*                                                                         *)
(* Python str values that the program parses are sequences of one-         *)
(* character strings; JSON values returned by the two HTTP APIs are        *)
(* records with a type tag.  The HTTP transport, json.loads, base64 and    *)
(* datetime.fromisoformat are library code: they are represented by the    *)
(* values they hand to the program.                                        *)
(***************************************************************************)
EXTENDS Integers, Sequences, FiniteSets, TLC

(***************************************************************************)
(* Python str operations used by the program.                              *)
(***************************************************************************)
IsSpace(c) == c \in {" ", "\t", "\r", "\n"}

RECURSIVE LStripBy(_, _)
LStripBy(s, cs) ==
    IF s # <<>> /\ Head(s) \in cs THEN LStripBy(Tail(s), cs) ELSE s

RECURSIVE RStripBy(_, _)
RStripBy(s, cs) ==
    IF s # <<>> /\ s[Len(s)] \in cs THEN RStripBy(SubSeq(s, 1, Len(s) - 1), cs) ELSE s

\* str.strip(chars)
StripBy(s, cs) == RStripBy(LStripBy(s, cs), cs)

\* str.strip()
Strip(s) == StripBy(s, {" ", "\t", "\r", "\n"})

\* str.startswith(p)
StartsWith(s, p) == Len(s) >= Len(p) /\ SubSeq(s, 1, Len(p)) = p

\* str.find(p) + 1: the 1-based position of the first occurrence, 0 when absent
Find(s, p) ==
    LET hits == {i \in 1..(Len(s) - Len(p) + 1) : SubSeq(s, i, i + Len(p) - 1) = p}
    IN  IF hits = {} THEN 0 ELSE CHOOSE i \in hits : \A j \in hits : i <= j

\* p in s
Contains(s, p) == Find(s, p) # 0

\* s.split(p, 1) when p occurs in s: the text before and after the first p
SplitFirst(s, p) ==
    LET i == Find(s, p)
    IN  <<SubSeq(s, 1, i - 1), SubSeq(s, i + Len(p), Len(s))>>

\* s.split(c) for a one-character separator: always at least one piece
RECURSIVE SplitOn(_, _)
SplitOn(s, c) ==
    LET i == Find(s, <<c>>)
    IN  IF i = 0 THEN <<s>>
        ELSE <<SubSeq(s, 1, i - 1)>> \o SplitOn(SubSeq(s, i + 1, Len(s)), c)

\* s.split(): the maximal runs of non-whitespace characters
RECURSIVE Fields(_)
Fields(s) ==
    LET t == LStripBy(s, {" ", "\t", "\r", "\n"})
        ws == {i \in 1..Len(t) : IsSpace(t[i])}
        e == IF ws = {} THEN Len(t) + 1 ELSE CHOOSE i \in ws : \A j \in ws : i <= j
    IN  IF t = <<>> THEN <<>>
        ELSE <<SubSeq(t, 1, e - 1)>> \o Fields(SubSeq(t, e, Len(t)))

(***************************************************************************)
(* Configuration tables.                                                   *)
(***************************************************************************)
\* get_package_files.package_files, in its order
package_files ==
    <<"package.json", "requirements.txt", "go.mod", "Cargo.toml",
      "pom.xml", "Gemfile", "composer.json">>

\* PACKAGE_FILES.get(filename): "" when the filename has no platform
PACKAGE_FILES(filename) ==
    CASE filename = "package.json" -> "npm"
      [] filename = "requirements.txt" -> "pypi"
      [] filename = "go.mod" -> "go"
      [] filename = "Cargo.toml" -> "cargo"
      [] filename = "pom.xml" -> "maven"
      [] filename = "Gemfile" -> "rubygems"
      [] filename = "composer.json" -> "packagist"
      [] OTHER -> ""

\* the characters of a file path, as they appear inside a message
PathChars(filename) ==
    CASE filename = "package.json" -> <<"p","a","c","k","a","g","e",".","j","s","o","n">>
      [] filename = "requirements.txt" -> <<"r","e","q","u","i","r","e","m","e","n","t","s",".","t","x","t">>
      [] filename = "go.mod" -> <<"g","o",".","m","o","d">>
      [] filename = "Cargo.toml" -> <<"C","a","r","g","o",".","t","o","m","l">>
      [] filename = "pom.xml" -> <<"p","o","m",".","x","m","l">>
      [] filename = "Gemfile" -> <<"G","e","m","f","i","l","e">>
      [] filename = "composer.json" -> <<"c","o","m","p","o","s","e","r",".","j","s","o","n">>
      [] OTHER -> <<"s","r","c","/","a",".","p","y">>

(***************************************************************************)
(* Manifest Parser: _extract_packages (src/tools/packages.py).             *)
(***************************************************************************)
\* sample package.json texts
PJ_Both ==
    <<"{","\"","d","e","p","e","n","d","e","n","c","i","e","s","\"",":","{","\"","a","\"",":","\"","1","\"","}",",","\"","d","e","v","D","e","p","e","n","d","e","n","c","i","e","s","\"",":","{","\"","b","\"",":","\"","2","\"","}","}">>

PJ_DevNull ==
    <<"{","\"","d","e","p","e","n","d","e","n","c","i","e","s","\"",":","{","\"","a","\"",":","\"","1","\"","}",",","\"","d","e","v","D","e","p","e","n","d","e","n","c","i","e","s","\"",":","n","u","l","l","}">>

PJ_Banner ==
    <<"#"," ","x","\n","{","\"","d","e","p","e","n","d","e","n","c","i","e","s","\"",":","{","\"","a","\"",":","\"","1","\"",",","\"","b","\"",":","\"","2","\"","}","}">>

PJ_Broken ==
    <<"{","\"","d","e","p","e","n","d","e","n","c","i","e","s","\"",":">>

PJ_Empty ==
    <<"{","}">>

\* a JSON member of the package.json object: absent, a mapping or null
NoSection == [t |-> "absent", items |-> <<>>]
NullSection == [t |-> "null", items |-> <<>>]
DictSection(items) == [t |-> "dict", items |-> items]

\* json.loads on the text from the first "{": the parsed object, or ok = FALSE
\* when the library raises JSONDecodeError
json_loads(text) ==
    CASE text = PJ_Both ->
           [ok |-> TRUE, dependencies |-> DictSection(<<<< <<"a">>, <<"1">> >>>>),
            devDependencies |-> DictSection(<<<< <<"b">>, <<"2">> >>>>)]
      [] text = PJ_DevNull ->
           [ok |-> TRUE, dependencies |-> DictSection(<<<< <<"a">>, <<"1">> >>>>),
            devDependencies |-> NullSection]
      [] text = SubSeq(PJ_Banner, 5, Len(PJ_Banner)) ->
           [ok |-> TRUE,
            dependencies |-> DictSection(<<<< <<"a">>, <<"1">> >>, << <<"b">>, <<"2">> >>>>),
            devDependencies |-> NoSection]
      [] text = PJ_Empty ->
           [ok |-> TRUE, dependencies |-> NoSection, devDependencies |-> NoSection]
      [] OTHER ->
           [ok |-> FALSE, dependencies |-> NoSection, devDependencies |-> NoSection]

\* data.get(section, {}).items(): raises AttributeError unless a mapping
SectionRaises(sec) == sec.t \notin {"absent", "dict"}

\* the package.json branch, lines 209-216; the except clause at 251-253
\* returns whatever the list holds when the exception is raised
ExtractPackageJson(content) ==
    LET json_start == Find(content, <<"{">>)
        data == json_loads(SubSeq(content, json_start, Len(content)))
    IN  IF json_start = 0 THEN <<>>
        ELSE IF ~data.ok THEN <<>>
        ELSE IF SectionRaises(data.dependencies) THEN <<>>
        ELSE IF SectionRaises(data.devDependencies) THEN data.dependencies.items
        ELSE data.dependencies.items \o data.devDependencies.items

\* whether the package.json branch leaves the try block by an exception
PackageJsonRaises(content) ==
    LET json_start == Find(content, <<"{">>)
        data == json_loads(SubSeq(content, json_start, Len(content)))
    IN  /\ json_start # 0
        /\ \/ ~data.ok
           \/ SectionRaises(data.dependencies)
           \/ SectionRaises(data.devDependencies)

\* one line of requirements.txt, lines 220-229: the entries it appends
RequirementsLine(raw) ==
    LET line == Strip(raw)
    IN  IF line # <<>> /\ ~StartsWith(line, <<"#">>) /\ ~StartsWith(line, <<"-">>)
        THEN IF Contains(line, <<"=", "=">>)
             THEN LET nv == SplitFirst(line, <<"=", "=">>)
                  IN  << <<Strip(nv[1]), <<"=", "=">> \o Strip(nv[2])>> >>
             ELSE IF Contains(line, <<">", "=">>)
             THEN LET nv == SplitFirst(line, <<">", "=">>)
                  IN  << <<Strip(nv[1]), <<">", "=">> \o Strip(nv[2])>> >>
             ELSE << <<Strip(line), <<>> >> >>
        ELSE <<>>

RECURSIVE RequirementsScan(_)
RequirementsScan(lines) ==
    IF lines = <<>> THEN <<>>
    ELSE RequirementsLine(Head(lines)) \o RequirementsScan(Tail(lines))

\* the requirements.txt branch, lines 218-229
ExtractRequirements(content) == RequirementsScan(SplitOn(content, "\n"))

DepsHeader == <<"[","d","e","p","e","n","d","e","n","c","i","e","s","]">>
DevDepsHeader == <<"[","d","e","v","-","d","e","p","e","n","d","e","n","c","i","e","s","]">>

\* a dependency section is entered and never left
CargoInDeps_Sticky(in_deps, raw) ==
    Strip(raw) \in {DepsHeader, DevDepsHeader} \/ in_deps

\* in_deps after a line of Cargo.toml, lines 235-238
CargoInDeps(in_deps, raw) ==
    LET line == Strip(raw)
    IN  IF line \in {DepsHeader, DevDepsHeader} THEN TRUE
        ELSE IF StartsWith(line, <<"[">>) THEN FALSE
        ELSE in_deps

\* the entries a line of Cargo.toml appends, lines 235-241
CargoLine(in_deps, raw) ==
    LET line == Strip(raw)
    IN  IF line \in {DepsHeader, DevDepsHeader} THEN <<>>
        ELSE IF StartsWith(line, <<"[">>) THEN <<>>
        ELSE IF in_deps /\ Contains(line, <<"=">>)
        THEN LET nv == SplitFirst(line, <<"=">>)
             IN  << <<Strip(nv[1]), StripBy(Strip(nv[2]), {"\""})>> >>
        ELSE <<>>

RECURSIVE CargoScan(_, _)
CargoScan(lines, in_deps) ==
    IF lines = <<>> THEN <<>>
    ELSE CargoLine(in_deps, Head(lines))
           \o CargoScan(Tail(lines), CargoInDeps(in_deps, Head(lines)))

\* the Cargo.toml branch, lines 231-241
ExtractCargo(content) == CargoScan(SplitOn(content, "\n"), FALSE)

\* one line of go.mod, lines 245-249
GoModLine(raw) ==
    LET line == Strip(raw)
        parts == Fields(line)
    IN  IF /\ line # <<>>
           /\ ~StartsWith(line, <<"/", "/">>)
           /\ ~StartsWith(line, <<"m","o","d","u","l","e">>)
           /\ ~StartsWith(line, <<"g","o"," ">>)
           /\ Len(parts) >= 2
        THEN << <<parts[1], parts[2]>> >>
        ELSE <<>>

RECURSIVE GoModScan(_)
GoModScan(lines) ==
    IF lines = <<>> THEN <<>> ELSE GoModLine(Head(lines)) \o GoModScan(Tail(lines))

\* the go.mod branch, lines 243-249
ExtractGoMod(content) == GoModScan(SplitOn(content, "\n"))

\* _extract_packages(filename, content): the list of (name, version) pairs
_extract_packages(filename, content) ==
    CASE filename = "package.json" -> ExtractPackageJson(content)
      [] filename = "requirements.txt" -> ExtractRequirements(content)
      [] filename = "Cargo.toml" -> ExtractCargo(content)
      [] filename = "go.mod" -> ExtractGoMod(content)
      [] OTHER -> <<>>

\* whether an exception was raised (and swallowed) while parsing the file
ParseRaises(filename, content) ==
    filename = "package.json" /\ PackageJsonRaises(content)

(***************************************************************************)
(* What a tool hands to its caller.                                        *)
(***************************************************************************)
\* a str returned to the caller (tag names the return statement, detail the
\* message it embeds, lines the report it carries) or an exception that
\* left the tool
Text(tag, lines) == [kind |-> "text", tag |-> tag, detail |-> "", lines |-> lines]
ErrorText(tag, detail) == [kind |-> "text", tag |-> tag, detail |-> detail, lines |-> <<>>]
Raised(tag) == [kind |-> "raise", tag |-> tag, detail |-> "", lines |-> <<>>]
NoResult == [kind |-> "none", tag |-> "", detail |-> "", lines |-> <<>>]

\* the str made of an exception caught at the tool's boundary
Caught == ErrorText("Error", "exception")

(***************************************************************************)
(* JSON values of the registry API and the Registry Client.                *)
(***************************************************************************)
\* a JSON member: its type t, its number n (int, bool) and its text s (str)
JAbsent == [t |-> "absent", n |-> 0, s |-> ""]
JNull == [t |-> "null", n |-> 0, s |-> ""]
JInt(k) == [t |-> "int", n |-> k, s |-> ""]
JBool(b) == [t |-> "bool", n |-> IF b THEN 1 ELSE 0, s |-> ""]
JStr(x) == [t |-> "str", n |-> 0, s |-> x]
\* an ISO-8601 timestamp with an offset, naming the instant at hour h
JTime(h) == [t |-> "str", n |-> h, s |-> "iso"]

\* d.get(key, default)
Get(member, default) == IF member.t = "absent" THEN default ELSE member

\* Python truth value
Truthy(v) ==
    \/ v.t \in {"int", "bool"} /\ v.n # 0
    \/ v.t = "str" /\ v.s # ""

\* int | None
None == [some |-> FALSE, v |-> 0]
Some(k) == [some |-> TRUE, v |-> k]

HoursPerDay == 24
DaysPerMonth == 30
\* datetime.now(timezone.utc), in hours
Now == 24000

Min(a, b) == IF a <= b THEN a ELSE b

\* x // d: the floor of the quotient
TruncDiv_Floor(x, d) == x \div d

\* int(x / d) for d > 0: truncation toward zero
TruncDiv(x, d) == IF x >= 0 THEN x \div d ELSE -((-x) \div d)

\* _months_since(date_str): timedelta.days is the floor of the difference
_months_since(date_str) ==
    IF ~Truthy(date_str) THEN None
    ELSE IF date_str.t # "str" \/ date_str.s # "iso" THEN None
    ELSE Some(TruncDiv((Now - date_str.n) \div HoursPerDay, DaysPerMonth))

\* a package object of the registry
Pkg(date, deprecated, contributors, stars, description, name, platform) ==
    [latest_release_published_at |-> date, deprecated |-> deprecated,
     contributions_count |-> contributors, stars |-> stars, forks |-> JInt(3),
     open_issues |-> JInt(4), description |-> description, name |-> name,
     platform |-> platform]

NoPkg == Pkg(JAbsent, JAbsent, JAbsent, JAbsent, JAbsent, JAbsent, JAbsent)

\* the value _api_get returns: a mapping with an "error" key, another mapping,
\* an empty mapping, a list or null
ErrorData(msg) == [t |-> "error", pkg |-> NoPkg, items |-> <<>>, error |-> msg]
DictData(pkg) == [t |-> "dict", pkg |-> pkg, items |-> <<>>, error |-> ""]
EmptyDictData == [t |-> "emptydict", pkg |-> NoPkg, items |-> <<>>, error |-> ""]
ListData(items) == [t |-> "list", pkg |-> NoPkg, items |-> items, error |-> ""]
NullData == [t |-> "null", pkg |-> NoPkg, items |-> <<>>, error |-> ""]

\* what the registry does with one request
TransportError == [kind |-> "transport", status |-> 0, json |-> NullData]
HttpStatus(code) == [kind |-> "http", status |-> code, json |-> NullData]
Http200(json) == [kind |-> "http", status |-> 200, json |-> json]
\* a 200 response whose body is not JSON: resp.json() raises
Http200NoJson == [kind |-> "nojson", status |-> 200, json |-> NullData]

\* isinstance(data, dict) and "error" in data
IsError(data) == data.t = "error"

\* not data
Falsy(data) == data.t \in {"null", "emptydict"} \/ (data.t = "list" /\ data.items = <<>>)

\* data.get(...) raises AttributeError
NoGet(data) == data.t \in {"null", "list"}

\* lines 33-37 of _api_get: the value made of the response
ApiResult(resp) ==
    IF resp.kind = "transport" THEN ErrorData("transport")
    ELSE IF resp.kind = "nojson" THEN ErrorData("json")
    ELSE IF resp.status = 200 THEN resp.json
    ELSE ErrorData("status")

\* line 28-29 of _api_get: the value returned without the credential
KeyMissing == ErrorData("LIBRARIES_IO_API_KEY not set")

\* whether _api_get goes to the network, line 28
ApiCalls(key) == key

\* _api_get(endpoint) as one step: the value returned for response resp
_api_get(key, resp) == IF ApiCalls(key) THEN ApiResult(resp) ELSE KeyMissing

(***************************************************************************)
(* Dependency classification, lines 146-166 of check_dependencies.         *)
(***************************************************************************)
RiskMonths == 12
MinContributors == 2

\* contributors < 2 raises TypeError
NoCompare(v) == v.t \notin {"int", "bool"}

\* the issues list with the age test written as "at least 12 months"
Issues_AtLeast(pkg) ==
    LET months == _months_since(Get(pkg.latest_release_published_at, JStr("")))
        deprecated == Get(pkg.deprecated, JBool(FALSE))
        contributors == Get(pkg.contributions_count, JInt(0))
    IN  (IF Truthy(deprecated) THEN <<"DEPRECATED">> ELSE <<>>)
        \o (IF months.some /\ months.v >= RiskMonths THEN <<"no release">> ELSE <<>>)
        \o (IF contributors.n < MinContributors THEN <<"< 2 contributors">> ELSE <<>>)

\* the issues list of a fetched package
Issues(pkg) ==
    LET months == _months_since(Get(pkg.latest_release_published_at, JStr("")))
        deprecated == Get(pkg.deprecated, JBool(FALSE))
        contributors == Get(pkg.contributions_count, JInt(0))
    IN  (IF Truthy(deprecated) THEN <<"DEPRECATED">> ELSE <<>>)
        \o (IF months.some /\ months.v > RiskMonths THEN <<"no release">> ELSE <<>>)
        \o (IF contributors.n < MinContributors THEN <<"< 2 contributors">> ELSE <<>>)

\* the loop at line 146 without the test for a failed lookup at line 147
EntryRaises_FailureAborts(data) ==
    \/ NoGet(data)
    \/ IsError(data)
    \/ NoCompare(Get(data.pkg.contributions_count, JInt(0)))

\* one pass of the loop at line 146 raises
EntryRaises(data) ==
    /\ ~IsError(data)
    /\ \/ NoGet(data)
       \/ NoCompare(Get(data.pkg.contributions_count, JInt(0)))

\* a line of the report
Line(kind, file, name, version, issues) ==
    [kind |-> kind, file |-> file, name |-> name, version |-> version, issues |-> issues]

\* the line one fetch result contributes, and the list it goes to
EntryLine(file, name, version, data) ==
    IF IsError(data) THEN Line("?", file, name, <<>>, <<>>)
    ELSE IF Issues(data.pkg) # <<>> THEN Line("[!]", file, name, version, Issues(data.pkg))
    ELSE Line("[ok]", file, name, version, <<>>)

(***************************************************************************)
(* Repository Client (src/github.py).                                      *)
(***************************************************************************)
\* the JSON body of a contents response: t as for the registry; encoding is
\* "base64", "none" (another value) or "absent"; decodes says whether
\* base64.b64decode(data["content"]) returns (text) or raises
Contents(t, encoding, decodes, text) ==
    [t |-> t, encoding |-> encoding, decodes |-> decodes, text |-> text]

\* a file of the repository, as the hosting API serves it
FileBody(text) == Contents("dict", "base64", TRUE, text)

\* what the hosting API does with one contents request

\* _get, lines 17-23: whether the value returned has an "error" key
GetFails(resp) ==
    \/ resp.kind # "http"
    \/ resp.status # 200
    \/ resp.json.t = "error"

ErrorPrefix == <<"E","r","r","o","r">>
ErrorFetching == <<"E","r","r","o","r"," ","f","e","t","c","h","i","n","g"," ">>
CouldNotDecode == <<"C","o","u","l","d"," ","n","o","t"," ","d","e","c","o","d","e"," ">>

\* get_file_content(repo, file_path) for response resp: raises is TRUE when
\* the exception of b64decode leaves the function, text is the str returned
get_file_content(file_path, resp) ==
    IF GetFails(resp)
    THEN [raises |-> FALSE, text |-> ErrorFetching \o PathChars(file_path) \o <<":", " ", "e">>]
    ELSE IF resp.json.t = "dict" /\ resp.json.encoding = "base64"
    THEN IF resp.json.decodes
         THEN [raises |-> FALSE, text |-> resp.json.text]
         ELSE [raises |-> TRUE, text |-> <<>>]
    ELSE [raises |-> FALSE, text |-> CouldNotDecode \o PathChars(file_path)]

\* line 107 of get_package_files: the test that keeps a file
Keeps(content) == ~StartsWith(content, ErrorPrefix)

\* get_package_files over the first k file names: the (filename, content)
\* pairs of found, in insertion order
RECURSIVE FoundUpTo(_, _)
FoundUpTo(host, k) ==
    IF k = 0 THEN <<>>
    ELSE LET filename == package_files[k]
             got == get_file_content(filename, host[filename])
         IN  FoundUpTo(host, k - 1)
               \o (IF ~got.raises /\ Keeps(got.text)
                   THEN << <<filename, got.text>> >> ELSE <<>>)

\* the number of contents requests get_package_files issues: it stops at
\* the first file whose fetch raises
Fetches(host) ==
    LET bad == {k \in 1..Len(package_files) :
                   get_file_content(package_files[k], host[package_files[k]]).raises}
    IN  IF bad = {} THEN Len(package_files)
        ELSE CHOOSE k \in bad : \A j \in bad : k <= j

\* get_package_files(repo)
get_package_files(host) ==
    [raises |-> \E k \in 1..Len(package_files) :
                   get_file_content(package_files[k], host[package_files[k]]).raises,
     found |-> FoundUpTo(host, Len(package_files))]

(***************************************************************************)
(* Repository Client: metadata, tree and code search (src/github.py).      *)
(***************************************************************************)
\* the JSON body of a repository response
RepoJson(t, stars, forks, default_branch, topics, license) ==
    [t |-> t, stars |-> stars, forks |-> forks, open_issues |-> JInt(2),
     default_branch |-> default_branch, topics |-> topics, license |-> license]

RepoBody(stars, default_branch) ==
    RepoJson("dict", stars, JInt(3), default_branch, JAbsent, JNull)


\* the dict get_repo_info returns
Info(error, stars, forks, open_issues, default_branch, topics) ==
    [error |-> error, stars |-> stars, forks |-> forks, open_issues |-> open_issues,
     default_branch |-> default_branch, topics |-> topics]

\* get_repo_info(repo) for response resp, lines 70-85: raises when data.get
\* or the license lookup raises AttributeError
get_repo_info(resp) ==
    IF GetFails(resp)
    THEN [raises |-> FALSE, info |-> Info(TRUE, JAbsent, JAbsent, JAbsent, JAbsent, JAbsent)]
    ELSE IF resp.json.t # "dict" \/ (Truthy(resp.json.license) /\ resp.json.license.t # "dict")
    THEN [raises |-> TRUE, info |-> Info(FALSE, JAbsent, JAbsent, JAbsent, JAbsent, JAbsent)]
    ELSE [raises |-> FALSE,
          info |-> Info(FALSE, Get(resp.json.stars, JNull), Get(resp.json.forks, JNull),
                        Get(resp.json.open_issues, JNull),
                        Get(resp.json.default_branch, JNull), resp.json.topics)]

\* the JSON body of a tree response: entries are (path, type) pairs, type ""
\* when the entry has no "type" member
TreeJson(t, tree) == [t |-> t, tree |-> tree]

RECURSIVE Blobs(_)
Blobs(tree) ==
    IF tree = <<>> THEN <<>>
    ELSE (IF Head(tree)[2] = "blob" THEN <<Head(tree)[1]>> ELSE <<>>) \o Blobs(Tail(tree))

\* the branch the second request of get_repo_tree names, line 92
FallbackBranch == "master"

\* whether get_repo_tree asks again, line 91
AsksAgain(first) == GetFails(first)

\* get_repo_tree(repo, branch), lines 88-95, for the responses to its first
\* and second request
get_repo_tree(first, second) ==
    LET data == IF AsksAgain(first) THEN second ELSE first
    IN  IF GetFails(data) THEN [raises |-> FALSE, files |-> <<>>]
        ELSE IF data.json.t # "dict" \/ \E k \in DOMAIN data.json.tree : data.json.tree[k][2] = ""
        THEN [raises |-> TRUE, files |-> <<>>]
        ELSE [raises |-> FALSE, files |-> Blobs(data.json.tree)]

\* the JSON body of a code search response: items are the paths of the hits
\* (a member with t = "null" is an item whose "repository" is null)
SearchJson(t, items) == [t |-> t, items |-> items]

\* search_code(repo, query, language), lines 39-57
gh_search(resp) ==
    IF GetFails(resp) THEN [raises |-> FALSE, error |-> TRUE, results |-> <<>>]
    ELSE IF resp.json.t # "dict" \/ \E k \in DOMAIN resp.json.items : resp.json.items[k].t = "null"
    THEN [raises |-> TRUE, error |-> FALSE, results |-> <<>>]
    ELSE [raises |-> FALSE, error |-> FALSE, results |-> resp.json.items]

stopwords ==
    {<<"h","o","w">>,
     <<"d","o","e","s">>,
     <<"d","o">>,
     <<"w","h","a","t">>,
     <<"i","s">>,
     <<"a","r","e">>,
     <<"w","h","e","r","e">>,
     <<"w","h","i","c","h">>,
     <<"f","i","n","d">>,
     <<"s","h","o","w">>,
     <<"m","e">>,
     <<"t","h","e">>,
     <<"a">>,
     <<"a","n">>,
     <<"i","n">>,
     <<"t","h","i","s">>,
     <<"c","o","d","e","b","a","s","e">>,
     <<"r","e","p","o">>,
     <<"r","e","p","o","s","i","t","o","r","y">>,
     <<"a","l","l">>,
     <<"a","n","y">>,
     <<"g","i","v","e">>,
     <<"e","x","p","l","a","i","n">>,
     <<"t","e","l","l">>,
     <<"w","o","r","k">>,
     <<"w","o","r","k","s">>,
     <<"i","m","p","l","e","m","e","n","t","e","d">>,
     <<"h","a","n","d","l","e","d">>,
     <<"u","s","e","d">>,
     <<"u","s","i","n","g">>,
     <<"c","o","d","e">>,
     <<"r","e","l","a","t","e","d">>}

RECURSIVE Keywords(_)
Keywords(words) ==
    IF words = <<>> THEN <<>>
    ELSE (IF Head(words) \notin stopwords /\ Len(Head(words)) > 2 THEN <<Head(words)>> ELSE <<>>)
           \o Keywords(Tail(words))

\* extract_search_term(question), lines 26-36, on the lower-cased words of
\* the question: the words of the term, or raises (IndexError) when the
\* question has no word at all
extract_search_term(words) ==
    IF Keywords(words) # <<>>
    THEN [raises |-> FALSE, term |-> SubSeq(Keywords(words), 1, Min(3, Len(Keywords(words))))]
    ELSE IF words = <<>> THEN [raises |-> TRUE, term |-> <<>>]
    ELSE [raises |-> FALSE, term |-> <<words[1]>>]


(***************************************************************************)
(* Package tools (src/tools/packages.py, lines 51-106 and 177-202).        *)
(***************************************************************************)
\* f"{x:,}" raises unless x is a number
NoComma(v) == v.t \notin {"int", "bool"}

\* x[:n] raises unless x is a str
NoSlice(v) == v.t # "str"

\* x.lower() raises unless x is a str
NoLower(v) == v.t # "str"

\* str.lower() on the names of the model
Lower(s) == CASE s = "A" -> "a" [] s = "NPM" -> "npm" [] s = "Pypi" -> "pypi" [] OTHER -> s

\* the loop body at lines 64-71 raises for pkg
SearchLineRaises(pkg) ==
    \/ NoComma(Get(pkg.stars, JInt(0)))
    \/ NoSlice(Get(pkg.description, JStr("N/A")))

\* search_packages(query, language) for the value data of _api_get
search_packages(data) ==
    IF IsError(data) THEN ErrorText("Error", data.error)
    ELSE IF Falsy(data) THEN Text("No packages found", <<>>)
    ELSE IF data.t # "list" THEN Raised("TypeError")
    ELSE IF \E k \in 1..Min(8, Len(data.items)) : SearchLineRaises(data.items[k])
    THEN Raised("TypeError")
    ELSE Text("Package search results", <<>>)

\* get_package_info(name, platform) for the value data of _api_get
get_package_info(data) ==
    IF IsError(data) THEN ErrorText("Error", data.error)
    ELSE IF Falsy(data) THEN Text("Package not found", <<>>)
    ELSE IF NoGet(data) THEN Raised("AttributeError")
    ELSE IF \/ NoComma(Get(data.pkg.stars, JInt(0)))
            \/ NoComma(Get(data.pkg.forks, JInt(0)))
            \/ NoComma(Get(data.pkg.open_issues, JInt(0)))
    THEN Raised("TypeError")
    ELSE Text("Package", <<>>)

\* line 189: the packages of data whose name differs from package_name
RECURSIVE Others(_, _)
Others(items, package_name) ==
    IF items = <<>> THEN <<>>
    ELSE (IF Lower(Get(Head(items).name, JStr("")).s) # Lower(package_name)
          THEN <<Head(items)>> ELSE <<>>) \o Others(Tail(items), package_name)

\* the loop body at lines 193-201 raises for pkg
AlternativeLineRaises(pkg) ==
    \/ NoComma(Get(pkg.stars, JInt(0)))
    \/ NoSlice(Get(pkg.description, JStr("")))

\* find_alternatives(package_name, language) for the value data of _api_get;
\* sorting two or more packages compares their stars
find_alternatives(data, package_name) ==
    IF IsError(data) THEN ErrorText("Error", data.error)
    ELSE IF Falsy(data) THEN Text("No alternatives found", <<>>)
    ELSE IF data.t # "list" THEN Raised("AttributeError")
    ELSE IF \E k \in DOMAIN data.items : NoLower(Get(data.items[k].name, JStr("")))
    THEN Raised("AttributeError")
    ELSE LET alternatives == Others(data.items, package_name)
         IN  IF /\ Len(alternatives) >= 2
                /\ \E k \in DOMAIN alternatives : NoComma(Get(alternatives[k].stars, JInt(0)))
             THEN Raised("TypeError")
             ELSE IF \E k \in 1..Min(6, Len(alternatives)) : AlternativeLineRaises(alternatives[k])
             THEN Raised("TypeError")
             ELSE Text("Alternatives", <<>>)

(***************************************************************************)
(* Codebase tools (src/tools/codebase.py).                                 *)
(***************************************************************************)
\* repo_info(repo) for the response to the repository request
repo_info(resp) ==
    LET got == get_repo_info(resp)
    IN  IF got.raises THEN Caught
        ELSE IF got.info.error THEN ErrorText("Error", "github")
        ELSE IF \/ NoComma(got.info.stars)
                \/ NoComma(got.info.forks)
                \/ NoComma(got.info.open_issues)
        THEN Caught
        ELSE Text("repo_info", <<>>)

\* get_file(repo, file_path) for the response to the contents request
get_file(file_path, resp) ==
    LET got == get_file_content(file_path, resp)
    IN  IF got.raises THEN Caught
        ELSE IF StartsWith(got.text, ErrorPrefix) THEN ErrorText("Error", "content")
        ELSE Text("file", <<>>)

\* search_code(query, repo, language) for the response to the search request
search_code(resp) ==
    LET got == gh_search(resp)
    IN  IF got.raises THEN Caught
        ELSE IF got.error THEN ErrorText("Search failed", "github")
        ELSE IF got.results = <<>> THEN ErrorText("Search failed", "No results")
        ELSE Text("Search results", <<>>)

\* str.endswith(p)
EndsWith(s, p) == Len(s) >= Len(p) /\ SubSeq(s, Len(s) - Len(p) + 1, Len(s)) = p

\* files[:50]
ShownFiles == 50

\* the branch list_files asks for, line 139: the str made of None when the
\* repository has no default branch
BranchOf(got) ==
    IF got.info.error THEN "main"
    ELSE IF got.info.default_branch.t = "str" THEN got.info.default_branch.s
    ELSE "None"

\* list_files(repo, extension) for the repository metadata got and the
\* value tree of get_repo_tree
list_files(got, tree, extension) ==
    IF got.raises \/ tree.raises THEN Caught
    ELSE IF tree.files = <<>> THEN ErrorText("Could not fetch file tree", "")
    ELSE LET ext == IF StartsWith(extension, <<".">>) THEN extension ELSE <<".">> \o extension
             files == IF extension # <<>>
                      THEN SelectSeq(tree.files, LAMBDA f : EndsWith(f, ext))
                      ELSE tree.files
         IN  Text("Files", SubSeq(files, 1, Min(ShownFiles, Len(files))))


\* ask_repo(question, repo) for the words of the question, the response to
\* the search request and the responses to the contents requests: the text
\* returned and the number of contents requests issued
ask_repo(words, search, contents) ==
    LET st == extract_search_term(words)
        got == gh_search(search)
        n == Min(4, Len(got.results))
        bad == {k \in 1..n : get_file_content(got.results[k].s, contents[got.results[k].s]).raises}
    IN  IF st.raises THEN [text |-> Caught, searched |-> FALSE, fetched |-> 0]
        ELSE IF got.raises THEN [text |-> Caught, searched |-> TRUE, fetched |-> 0]
        ELSE IF got.error
        THEN [text |-> ErrorText("Could not search repo", "github"), searched |-> TRUE,
              fetched |-> 0]
        ELSE IF got.results = <<>>
        THEN [text |-> ErrorText("Could not search repo", "No results"), searched |-> TRUE,
              fetched |-> 0]
        ELSE IF bad # {}
        THEN [text |-> Caught, searched |-> TRUE,
              fetched |-> CHOOSE k \in bad : \A j \in bad : k <= j]
        ELSE [text |-> Text("Relevant code", <<>>), searched |-> TRUE, fetched |-> n]

(***************************************************************************)
(* Snapshot & Compare Engine (src/tools/combined.py, lines 60-188).        *)
(***************************************************************************)
WordChars ==
    {"a", "b", "c", "d", "e", "f", "g", "h", "i", "j", "k", "l", "m", "n", "o", "p",
     "q", "r", "s", "t", "u", "v", "w", "x", "y", "z", "A", "B", "C", "0", "1", "2",
     "3", "4", "5", "6", "7", "8", "9", "_"}

GithubCom == <<"g","i","t","h","u","b",".","c","o","m">>
GithubComSlash == <<"g","i","t","h","u","b",".","c","o","m","/">>

\* re.match(r"^[\w.-]+/[\w.-]+$", name)
SlugShape(name) ==
    LET i == Find(name, <<"/">>)
    IN  /\ 1 < i /\ i < Len(name)
        /\ \A k \in (1..Len(name)) \ {i} : name[k] \in WordChars \cup {".", "-"}

\* an item is taken for a repository by its shape alone
_is_repo_SlugOnly(name) == SlugShape(Strip(name))

\* _is_repo(name), lines 60-64
_is_repo(name) == Contains(Strip(name), GithubCom) \/ SlugShape(Strip(name))

\* s.split(p)[-1]: the text after the last occurrence of p
RECURSIVE AfterLast(_, _)
AfterLast(s, p) ==
    IF Contains(s, p) THEN AfterLast(SplitFirst(s, p)[2], p) ELSE s

\* the repository _repo_snapshot asks for, lines 95-97
SnapshotRepo(item) ==
    IF Contains(Strip(item), GithubComSlash)
    THEN StripBy(AfterLast(Strip(item), GithubComSlash), {"/"})
    ELSE Strip(item)

\* _guess_platform(name) for the value data of _api_get, lines 68-71
_guess_platform(data) ==
    IF ~Falsy(data) /\ data.t = "list"
    THEN IF NoLower(Get(data.items[1].platform, JStr("npm")))
         THEN [raises |-> TRUE, platform |-> ""]
         ELSE [raises |-> FALSE, platform |-> Lower(Get(data.items[1].platform, JStr("npm")).s)]
    ELSE [raises |-> FALSE, platform |-> "npm"]

\* a snapshot: the members compare and _format_snapshot read
Snapshot(error, platform, stars, forks, open_issues, contributors, months) ==
    [error |-> error, platform |-> platform, stars |-> stars, forks |-> forks,
     open_issues |-> open_issues, contributors |-> contributors, months |-> months]

ErrorSnapshot(platform) == Snapshot(TRUE, platform, JNull, JNull, JNull, JNull, None)

\* _package_snapshot(name, platform) for the value data of _api_get
_package_snapshot(data, platform) ==
    IF Falsy(data) \/ IsError(data) THEN [raises |-> FALSE, snap |-> ErrorSnapshot(platform)]
    ELSE IF NoGet(data) THEN [raises |-> TRUE, snap |-> ErrorSnapshot(platform)]
    ELSE [raises |-> FALSE,
          snap |-> Snapshot(FALSE, platform, Get(data.pkg.stars, JInt(0)),
                            Get(data.pkg.forks, JInt(0)), Get(data.pkg.open_issues, JInt(0)),
                            Get(data.pkg.contributions_count, JInt(0)),
                            _months_since(Get(data.pkg.latest_release_published_at, JStr(""))))]

\* _repo_snapshot(repo) for the response to the repository request
_repo_snapshot(resp) ==
    LET got == get_repo_info(resp)
    IN  IF got.raises THEN [raises |-> TRUE, snap |-> ErrorSnapshot("github")]
        ELSE IF got.info.error THEN [raises |-> FALSE, snap |-> ErrorSnapshot("github")]
        ELSE [raises |-> FALSE,
              snap |-> Snapshot(FALSE, "github", got.info.stars, got.info.forks,
                                got.info.open_issues, JInt(0), None)]

\* _format_snapshot(snap) raises, lines 114-141
FormatRaises(snap) ==
    /\ ~snap.error
    /\ \/ NoComma(snap.stars)
       \/ NoComma(snap.forks)
       \/ NoComma(snap.open_issues)
       \/ snap.platform # "github" /\ NoComma(snap.contributors)

\* a tie in stars goes to the second item
MorePopular_Strict(item1, item2, snap1, snap2) ==
    IF snap1.stars.n > snap2.stars.n THEN item1 ELSE item2

\* the item named by the "More popular" line, line 180
MorePopular(item1, item2, snap1, snap2) ==
    IF snap1.stars.n >= snap2.stars.n THEN item1 ELSE item2

\* the item named by the "More recently updated" line, line 186
MoreRecent(item1, item2, snap1, snap2) ==
    IF snap1.months.v <= snap2.months.v THEN item1 ELSE item2

\* lines 171-188: the text compare makes of two snapshots
Verdict(item1, item2, snap1, snap2, mode) ==
    IF FormatRaises(snap1) \/ FormatRaises(snap2) THEN Raised("TypeError")
    ELSE Text("compare",
              <<Line(IF snap1.error THEN "Error" ELSE "snapshot", snap1.platform, item1, <<>>, <<>>),
                Line(IF snap2.error THEN "Error" ELSE "snapshot", snap2.platform, item2, <<>>, <<>>)>>
              \o (IF ~snap1.error /\ ~snap2.error
                  THEN <<Line("More popular", "", MorePopular(item1, item2, snap1, snap2),
                              <<>>, <<>>)>>
                       \o (IF mode = "package" /\ snap1.months.some /\ snap2.months.some
                           THEN <<Line("More recently updated", "",
                                       MoreRecent(item1, item2, snap1, snap2), <<>>, <<>>)>>
                           ELSE <<>>)
                  ELSE <<>>))

\* lines 154-169: "package" (hint given), "repo", "package" or "mixed"
Mode(item1, item2, platform) ==
    IF platform # "" THEN "package"
    ELSE IF _is_repo(item1) /\ _is_repo(item2) THEN "repo"
    ELSE IF ~_is_repo(item1) /\ ~_is_repo(item2) THEN "package"
    ELSE "mixed"

\* whether an item is resolved by _repo_snapshot
AsRepo(item, platform) == platform = "" /\ _is_repo(item)

(***************************************************************************)
(* The outside world of a behaviour.                                       *)
(***************************************************************************)
\* a package object with the three members the health check reads
Aged(deprecated, days, contributors) ==
    Pkg(JTime(Now - days * HoursPerDay - 1), deprecated, contributors,
        JInt(7), JStr("d"), JStr("a"), JStr("npm"))

Healthy == Aged(JBool(FALSE), 180, JInt(5))

\* a package object of a search result; the name "" stands for a null name
Hit(name, stars, description, platform) ==
    Pkg(JTime(Now - 1), JBool(FALSE), JInt(5), stars, description,
        IF name = "" THEN JNull ELSE JStr(name), platform)

\* the responses of the registry to a package request, by name
Response(id) ==
    CASE id = "404" -> HttpStatus(404)
      [] id = "nojson" -> Http200NoJson
      [] id = "healthy" -> Http200(DictData(Healthy))
      [] id = "deprecated" -> Http200(DictData(Aged(JBool(TRUE), 180, JInt(5))))
      [] id = "few" -> Http200(DictData(Aged(JBool(FALSE), 90, JInt(1))))
      [] id = "stale" -> Http200(DictData(Aged(JBool(FALSE), 390, JInt(2))))
      [] id = "popular" ->
           Http200(DictData(Pkg(JTime(Now - 1), JBool(FALSE), JInt(5), JInt(9), JStr("d"),
                                JStr("b"), JStr("npm"))))
      [] id = "year" -> Http200(DictData(Aged(JAbsent, 389, JInt(2))))
      [] id = "undated" ->
           Http200(DictData(Pkg(JStr(""), JNull, JInt(5), JInt(7), JStr("d"), JStr("a"),
                                JStr("npm"))))
      [] id = "nullcount" ->
           Http200(DictData(Pkg(JStr("bad"), JBool(FALSE), JNull, JInt(7), JStr("d"),
                                JStr("a"), JStr("npm"))))
      [] id = "empty" -> Http200(EmptyDictData)
      [] id = "null" -> Http200(NullData)
      [] id = "list" -> Http200(ListData(<<>>))
      [] id = "errorbody" -> Http200(ErrorData("body"))
      [] id = "hits" -> Http200(ListData(<<Hit("a", JInt(7), JStr("d"), JStr("NPM")),
                                           Hit("b", JInt(9), JAbsent, JAbsent)>>))
      [] id = "onehit" -> Http200(ListData(<<Hit("A", JNull, JStr("d"), JStr("Pypi"))>>))
      [] id = "nullstars" -> Http200(ListData(<<Hit("b", JNull, JStr("d"), JNull),
                                                Hit("c", JInt(1), JStr("d"), JNull)>>))
      [] id = "nulldesc" -> Http200(ListData(<<Hit("b", JInt(7), JNull, JStr("Pypi"))>>))
      [] id = "nullname" -> Http200(ListData(<<Hit("", JInt(7), JStr("d"), JStr("NPM"))>>))
      [] OTHER -> TransportError

Responses ==
    {"transport", "404", "nojson", "healthy", "deprecated", "few", "stale", "year",
     "undated", "nullcount", "empty", "null", "list", "errorbody"}

\* the answers to a search request that the package tools are run against
SearchResponses ==
    {"transport", "404", "hits", "onehit", "nullstars", "nulldesc", "nullname", "list",
     "healthy", "null"}

\* the answers that compare is run against
GuessResponses == {"transport", "list", "onehit", "nullstars"}
SnapshotResponses == {"404", "healthy", "stale", "undated", "popular", "onehit"}

NotFound == HttpStatus(404)
File(text) == Http200(FileBody(text))

\* the hosting API's answers for the seven manifest names
Host(pj, rq, gm, ct, pom, gem, comp) ==
    [f \in {package_files[k] : k \in 1..Len(package_files)} |->
        CASE f = "package.json" -> pj
          [] f = "requirements.txt" -> rq
          [] f = "go.mod" -> gm
          [] f = "Cargo.toml" -> ct
          [] f = "pom.xml" -> pom
          [] f = "Gemfile" -> gem
          [] OTHER -> comp]

Req_Three == <<"a","=","=","1","\n","b"," ",">","="," ","2","\n","#"," ","c","\n","-","r"," ","x","\n","\n","c">>
Req_Twice == <<"a","\n","a">>
Req_Error == <<"E","r","r","o","r"," ","h","a","n","d","l","i","n","g"," ","h","e","l","p","e","r","s","\n","b">>
Go_Three == <<"m","o","d","u","l","e"," ","m","\n","g","o"," ","1","\n","/","/"," ","c","\n","x"," ","v","1","\n","y"," ","v","2","\n","z"," ","v","3">>
Cargo_One == <<"[","p","a","c","k","a","g","e","]","\n","n"," ","="," ","\"","0","\"","\n","[","d","e","p","e","n","d","e","n","c","i","e","s","]","\n","a"," ","="," ","\"","1","\"","\n","[","f","e","a","t","u","r","e","s","]","\n","b"," ","="," ","\"","2","\"">>

\* the numbers of lines of the large manifests
LargeManifest == 22
MediumManifest == 13

\* a requirements.txt of n lines naming a and b in turn
RECURSIVE ManyLines(_)
ManyLines(n) ==
    IF n = 0 THEN <<>>
    ELSE (IF n = 1 THEN <<>> ELSE ManyLines(n - 1) \o <<"\n">>)
           \o (IF n % 2 = 1 THEN <<"a">> ELSE <<"b">>)

\* the repositories of the hosting site, by slug
Repository(slug) ==
    CASE slug = "o/requirements" ->
           Host(NotFound, File(Req_Three), NotFound, NotFound, NotFound, NotFound, NotFound)
      [] slug = "o/two" ->
           Host(File(PJ_Both), NotFound, NotFound, File(Cargo_One), NotFound, NotFound, NotFound)
      [] slug = "o/devnull" ->
           Host(File(PJ_DevNull), File(Req_Twice), NotFound, NotFound, NotFound, NotFound, NotFound)
      [] slug = "o/undecoded" ->
           Host(NotFound, Http200(Contents("dict", "none", TRUE, <<"a">>)),
                Http200(Contents("list", "absent", FALSE, <<>>)), NotFound, NotFound,
                NotFound, NotFound)
      [] slug = "o/mixed" ->
           Host(File(PJ_Broken), File(Req_Error), File(Go_Three), NotFound, File(<<"x">>),
                TransportError, File(PJ_Empty))
      [] slug = "o/large" ->
           Host(NotFound, File(ManyLines(LargeManifest)), NotFound, NotFound, NotFound,
                NotFound, NotFound)
      [] slug = "o/medium" ->
           Host(NotFound, File(ManyLines(MediumManifest)), NotFound, NotFound, NotFound,
                NotFound, NotFound)
      [] slug = "o/plain" ->
           Host(NotFound, File(<<"a">>), NotFound, NotFound, NotFound, NotFound, NotFound)
      [] slug = "o/binary" ->
           Host(File(PJ_Banner), TransportError,
                Http200(Contents("dict", "base64", FALSE, <<>>)), NotFound, NotFound,
                NotFound, NotFound)
      [] OTHER ->
           Host(NotFound, NotFound, NotFound, NotFound, NotFound, NotFound, NotFound)

Repositories ==
    {"o/requirements", "o/two", "o/devnull", "o/undecoded", "o/mixed", "o/binary", "o/plain",
     "o/none"}

\* the characters of a slug
SlugChars(slug) ==
    CASE slug = "o/requirements" -> <<"o","/","r","e","q","u","i","r","e","m","e","n","t","s">>
      [] slug = "o/two" -> <<"o","/","t","w","o">>
      [] slug = "o/devnull" -> <<"o","/","d","e","v","n","u","l","l">>
      [] slug = "o/undecoded" -> <<"o","/","u","n","d","e","c","o","d","e","d">>
      [] slug = "o/mixed" -> <<"o","/","m","i","x","e","d">>
      [] slug = "o/binary" -> <<"o","/","b","i","n","a","r","y">>
      [] slug = "o/large" -> <<"o","/","l","a","r","g","e">>
      [] slug = "o/medium" -> <<"o","/","m","e","d","i","u","m">>
      [] slug = "o/none" -> <<"o","/","n","o","n","e">>
      [] slug = "o/plain" -> <<"o","/","p","l","a","i","n">>
      [] slug = "p/q" -> <<"p","/","q">>
      [] OTHER -> <<"x">>

Slugs ==
    {"o/requirements", "o/two", "o/devnull", "o/undecoded", "o/mixed", "o/binary",
     "o/large", "o/medium", "o/plain", "o/none", "p/q"}

\* the repository a request names: a name the site does not know gets the
\* answers of "o/none"
SlugOf(repo) ==
    IF \E s \in Slugs : SlugChars(s) = repo
    THEN CHOOSE s \in Slugs : SlugChars(s) = repo
    ELSE "o/none"

\* the hosting API's answer to the repository request
RepoResp(slug) ==
    CASE slug \in {"o/requirements", "o/large", "o/medium"} ->
           Http200(RepoBody(JInt(9), JStr("main")))
      [] slug = "o/two" -> Http200(RepoBody(JInt(9), JStr("master")))
      [] slug = "p/q" -> Http200(RepoBody(JInt(5), JStr("main")))
      [] slug = "o/devnull" -> TransportError
      [] slug = "o/undecoded" -> Http200(RepoBody(JNull, JStr("main")))
      [] slug = "o/mixed" -> Http200(RepoBody(JInt(1), JAbsent))
      [] slug = "o/binary" -> Http200(RepoJson("list", JAbsent, JAbsent, JAbsent, JAbsent, JAbsent))
      [] OTHER -> HttpStatus(404)

SomeTree == Http200(TreeJson("dict", <<<<<<"a",".","p","y">>, "blob">>, <<<<"s","r","c">>, "tree">>, <<<<"b",".","m","d">>, "blob">>>>))

\* the hosting API's answer to a tree request
TreeResp(slug, branch) ==
    CASE slug \in {"o/requirements", "o/large", "o/medium", "p/q"} /\ branch = "main" -> SomeTree
      [] slug = "o/two" -> HttpStatus(409)
      [] slug \in {"o/devnull", "o/mixed"} /\ branch = "master" -> SomeTree
      [] slug = "o/undecoded" /\ branch = "main" ->
           Http200(TreeJson("dict", <<<<<<"a",".","p","y">>, "blob">>, <<<<"b",".","m","d">>, "">>>>))
      [] OTHER -> HttpStatus(404)

\* the hosting API's answer to a code search
SearchResp(slug) ==
    CASE slug \in {"o/requirements", "o/large", "o/medium", "o/plain", "p/q"} ->
           Http200(SearchJson("dict", <<JStr("src/a.py"), JStr("requirements.txt")>>))
      [] slug = "o/two" -> HttpStatus(403)
      [] slug = "o/devnull" -> TransportError
      [] slug = "o/undecoded" -> Http200(SearchJson("dict", <<>>))
      [] slug = "o/mixed" -> Http200(SearchJson("dict", <<JStr("go.mod"), JStr("Gemfile")>>))
      [] slug = "o/binary" -> Http200(SearchJson("dict", <<JStr("package.json")>>))
      [] OTHER -> Http200(SearchJson("null", <<>>))

Paths == {package_files[k] : k \in 1..Len(package_files)} \cup {"src/a.py"}

\* the hosting API's answers to the contents requests of a repository
ContentsResp(slug) ==
    [f \in Paths |->
        IF f = "src/a.py"
        THEN (IF slug = "o/requirements" THEN File(<<"x">>) ELSE NotFound)
        ELSE Repository(slug)[f]]

\* the registry's behaviour: "any" answers a request with any response,
\* "steady" and "serial" with a healthy package; "serial" answers the
\* requests in the order they arrive
Registry(mode) == IF mode = "any" THEN Responses ELSE {"healthy"}

(***************************************************************************)
(* State.                                                                  *)
(***************************************************************************)
VARIABLES
    key,            \* LIBRARIES_IO_KEY is non-empty
    hosting,        \* the slug of the repository the tools are asked about
    registry,       \* how the registry API answers: "any", "steady" or "serial"
    default_params, \* the default value of _api_get's params holds "api_key"
    pc,             \* "idle", "fanout" (inside executor.map) or "done"
    tool,           \* the tool being served
    package_docs,   \* check_dependencies: the (filename, content) pairs found
    file_i,         \* the position in package_docs of the manifest being checked
    status,         \* per submitted lookup: "queued", "running" or "done"
    fetch_results,  \* per submitted lookup: its package and the response it got
    params_writers, \* the lookups of this fan-out that wrote the default params
    all_results,    \* the report lines so far
    sections,       \* the texts a composite tool has collected so far
    netlog,         \* the requests this invocation has issued, in order
    result,         \* what the tool returned to its caller
    call            \* the arguments of the call: of compare, with the registry's
                    \* answers to it, and of a function that is run alone

vars ==
    <<key, hosting, registry, default_params, pc, tool, package_docs, file_i,
      status, fetch_results, params_writers, all_results, sections,
      netlog, result, call>>

\* the configuration and the outside world do not change
env == <<key, hosting, registry>>

\* the local variables of check_dependencies
locals == <<package_docs, file_i, status, fetch_results, params_writers, all_results>>

(***************************************************************************)
(* Requests and results.                                                   *)
(***************************************************************************)
\* a request: reissue says that the same request had already failed in this
\* invocation when it was issued; task is the lookup that issued it
Req(api, kind, arg, task, state, reissue) ==
    [api |-> api, kind |-> kind, arg |-> arg, task |-> task, state |-> state,
     reissue |-> reissue]

Failed(log, api, kind, arg) ==
    \E i \in DOMAIN log :
        /\ log[i].api = api /\ log[i].kind = kind /\ log[i].arg = arg
        /\ log[i].state = "failed"

Issue(log, api, kind, arg, task, state) ==
    Append(log, Req(api, kind, arg, task, state, Failed(log, api, kind, arg)))

GhIssue(log, kind, arg, resp) ==
    Issue(log, "github", kind, arg, 0, IF GetFails(resp) THEN "failed" ELSE "ok")

\* a request of _api_get for response id resp: none without the credential
AskRegistry(log, k, endpoint, arg, resp) ==
    IF ApiCalls(k)
    THEN Issue(log, "registry", endpoint, arg, 0,
               IF IsError(ApiResult(Response(resp))) THEN "failed" ELSE "ok")
    ELSE log

\* the contents requests of get_package_files, in order
RECURSIVE IssueContents(_, _, _)
IssueContents(log, host, k) ==
    IF k = 0 THEN log
    ELSE Issue(IssueContents(log, host, k - 1), "github", "contents",
               PathChars(package_files[k]), 0,
               IF GetFails(host[package_files[k]]) THEN "failed" ELSE "ok")


(***************************************************************************)
(* The tools that return in one step (src/server.py).                      *)
(***************************************************************************)
\* a tool that ends within the step: what it returns, the requests it made
\* and whether it left "api_key" in the default params
ServeCall(tl, c, text, log, wrote) ==
    /\ pc = "idle"
    /\ pc' = "done"
    /\ tool' = tl
    /\ call' = c
    /\ result' = text
    /\ netlog' = log
    /\ default_params' = (default_params \/ wrote)
    /\ UNCHANGED <<env, locals, sections>>

Serve(tl, text, log, wrote) == ServeCall(tl, <<>>, text, log, wrote)

Names == {<<"a">>, <<"b">>}

tool_search_packages ==
    \E query \in Names, resp \in SearchResponses :
        Serve("search_packages", search_packages(_api_get(key, Response(resp))),
              AskRegistry(netlog, key, "search", query, resp), FALSE)

tool_get_package_info ==
    \E name \in Names, resp \in Responses \cup {"onehit"} :
        Serve("get_package_info", get_package_info(_api_get(key, Response(resp))),
              AskRegistry(netlog, key, "npm", name, resp), ApiCalls(key))

tool_find_alternatives ==
    \E package_name \in {"a", "b"}, resp \in SearchResponses :
        Serve("find_alternatives",
              find_alternatives(_api_get(key, Response(resp)), package_name),
              AskRegistry(netlog, key, "search", <<package_name>>, resp), FALSE)

tool_repo_info ==
    Serve("repo_info", repo_info(RepoResp(hosting)),
          GhIssue(netlog, "repos", SlugChars(hosting), RepoResp(hosting)), FALSE)

tool_get_file ==
    \E file_path \in Paths :
        Serve("get_file", get_file(file_path, ContentsResp(hosting)[file_path]),
              GhIssue(netlog, "contents", PathChars(file_path),
                      ContentsResp(hosting)[file_path]), FALSE)

tool_search_code ==
    Serve("search_code", search_code(SearchResp(hosting)),
          GhIssue(netlog, "search/code", SlugChars(hosting), SearchResp(hosting)), FALSE)

BranchChars(branch) ==
    CASE branch = "main" -> <<"m","a","i","n">>
      [] branch = "master" -> <<"m","a","s","t","e","r">>
      [] OTHER -> <<"N","o","n","e">>

\* the requests of get_repo_tree(repo, branch), lines 90-92
TreeLog(log, slug, branch) ==
    LET first == GhIssue(log, "git/trees", SlugChars(slug) \o <<"/">> \o BranchChars(branch),
                         TreeResp(slug, branch))
    IN  IF AsksAgain(TreeResp(slug, branch))
        THEN GhIssue(first, "git/trees",
                     SlugChars(slug) \o <<"/">> \o BranchChars(FallbackBranch),
                     TreeResp(slug, FallbackBranch))
        ELSE first

Extensions == {<<>>, <<"p", "y">>, <<".", "m", "d">>}

tool_list_files ==
    \E extension \in Extensions :
        LET got == get_repo_info(RepoResp(hosting))
            branch == BranchOf(got)
            tree == get_repo_tree(TreeResp(hosting, branch), TreeResp(hosting, FallbackBranch))
            asked == GhIssue(netlog, "repos", SlugChars(hosting), RepoResp(hosting))
        IN  IF got.raises
            THEN Serve("list_files", Caught, asked, FALSE)
            ELSE Serve("list_files", list_files(got, tree, extension),
                       TreeLog(asked, hosting, branch), FALSE)

Questions == {<<>>, <<<<"h","o","w">>, <<"d","o","e","s">>>>, <<<<"h","o","w">>, <<"d","o","e","s">>, <<"a","u","t","h">>, <<"w","o","r","k">>>>}

\* the requests of ask_repo: the search, then one contents request per hit
RECURSIVE HitsLog(_, _, _, _)
HitsLog(log, slug, hits, n) ==
    IF n = 0 THEN log
    ELSE GhIssue(HitsLog(log, slug, hits, n - 1), "contents", PathChars(hits[n].s),
                 ContentsResp(slug)[hits[n].s])

AskLog(log, slug, asked) ==
    IF ~asked.searched THEN log
    ELSE HitsLog(GhIssue(log, "search/code", SlugChars(slug), SearchResp(slug)), slug,
                 gh_search(SearchResp(slug)).results, asked.fetched)

tool_ask_repo ==
    \E question \in Questions :
        LET asked == ask_repo(question, SearchResp(hosting), ContentsResp(hosting))
        IN  Serve("ask_repo", asked.text, AskLog(netlog, hosting, asked), FALSE)

(***************************************************************************)
(* check_dependencies (src/tools/packages.py, lines 109-174).              *)
(***************************************************************************)
MaxPackages == 20
max_workers == 10

\* the package list without the slice
Truncate_All(pkgs) == pkgs

\* packages[:20]
Truncate(pkgs) == SubSeq(pkgs, 1, Min(MaxPackages, Len(pkgs)))

\* an element of fetch_results: the package fetch_package was given and the
\* name of the response its request got ("" before it got one)
Fetched(pkg_tuple, resp) ==
    [name |-> pkg_tuple[1], version |-> pkg_tuple[2], resp |-> resp]

\* the data of the tuple fetch_package returns, lines 139-140
DataOf(k, fetched) == _api_get(k, Response(fetched.resp))

\* the manifests from position i on that get a section: lines 126-132
Pending(docs, i) ==
    {j \in i..Len(docs) :
        /\ PACKAGE_FILES(docs[j][1]) # ""
        /\ _extract_packages(docs[j][1], docs[j][2]) # <<>>}

Header(file) == Line("header", file, <<>>, <<>>, <<>>)

\* a composite tool whose dependency check failed returns that error alone
Deliver_Atomic(tl, secs, text) ==
    /\ pc' = "done"
    /\ result' = IF tl \in {"audit_repo", "repo_summary"} /\ text.tag # "Error checking dependencies"
                 THEN Text(tl, <<>>) ELSE text
    /\ sections' = IF tl \notin {"audit_repo", "repo_summary"} THEN secs
                   ELSE IF text.tag = "Error checking dependencies" THEN <<text>>
                   ELSE Append(secs, text)

\* the end of check_dependencies inside tool tl: the composite tools append
\* its text to their own sections
Deliver(tl, secs, text) ==
    /\ pc' = "done"
    /\ result' = IF tl \in {"audit_repo", "repo_summary"} THEN Text(tl, <<>>) ELSE text
    /\ sections' = IF tl \in {"audit_repo", "repo_summary"}
                   THEN Append(secs, text)
                   ELSE secs

\* the loop at line 125 over docs from position i with the report lines acc:
\* it runs to the next executor.map, or to the return at line 171
Advance(tl, secs, docs, i, acc) ==
    /\ package_docs' = docs
    /\ IF Pending(docs, i) = {}
       THEN /\ Deliver(tl, secs, Text("report", acc))
            /\ all_results' = acc
            /\ file_i' = IF i <= Len(docs) THEN Len(docs) ELSE file_i
            /\ UNCHANGED <<status, fetch_results, params_writers>>
       ELSE LET j == CHOOSE j \in Pending(docs, i) : \A m \in Pending(docs, i) : j <= m
                pkgs == Truncate(_extract_packages(docs[j][1], docs[j][2]))
            IN  /\ pc' = "fanout"
                /\ file_i' = j
                /\ status' = [t \in 1..Len(pkgs) |-> "queued"]
                /\ fetch_results' = [t \in 1..Len(pkgs) |-> Fetched(pkgs[t], "")]
                /\ params_writers' = {}
                /\ all_results' = Append(acc, Header(docs[j][1]))
                /\ sections' = secs
                /\ result' = result

\* lines 114-135 inside tool tl, whose sections so far are secs: from the
\* call to the first executor.map or to a return
EnterCheckDependencies(tl, secs, log) ==
    LET got == get_package_files(Repository(hosting))
    IN  /\ netlog' = IssueContents(log, Repository(hosting), Fetches(Repository(hosting)))
        /\ IF got.raises
           THEN /\ Deliver(tl, secs, Text("Error checking dependencies", <<>>))
                /\ UNCHANGED locals
           ELSE IF got.found = <<>>
           THEN /\ Deliver(tl, secs, Text("No package files found", <<>>))
                /\ UNCHANGED locals
           ELSE Advance(tl, secs, got.found, 1, <<>>)

\* the tool check_dependencies(repo)
tool_check_dependencies ==
    /\ pc = "idle"
    /\ tool' = "check_dependencies"
    /\ EnterCheckDependencies("check_dependencies", <<>>, netlog)
    /\ UNCHANGED <<env, default_params, call>>

(***************************************************************************)
(* compare (src/tools/combined.py, lines 144-188).                         *)
(***************************************************************************)
\* the items compare is asked about: two package names, the repository and
\* the URL of a second repository
Items == Names \cup {SlugChars(hosting), <<" ","g","i","t","h","u","b",".","c","o","m","/","p","/","q","/">>}

\* the platform _package_snapshot is given for an item
PlatformOf(k, platform, guess) ==
    IF platform # "" THEN [raises |-> FALSE, platform |-> platform]
    ELSE _guess_platform(_api_get(k, Response(guess)))

\* the snapshot compare makes of one item (repo: the item is resolved as a
\* repository), for the answers guess and answer of the registry to the
\* search and to the package request
Resolve(k, repo, item, platform, guess, answer) ==
    LET on == PlatformOf(k, platform, guess)
    IN  IF repo THEN _repo_snapshot(RepoResp(SlugOf(SnapshotRepo(item))))
        ELSE IF on.raises THEN [raises |-> TRUE, snap |-> ErrorSnapshot("")]
        ELSE _package_snapshot(_api_get(k, Response(answer)), on.platform)

\* the requests made for that snapshot
ResolveLog(log, k, repo, item, platform, guess, answer) ==
    IF repo
    THEN GhIssue(log, "repos", SnapshotRepo(item), RepoResp(SlugOf(SnapshotRepo(item))))
    ELSE LET guessed == IF platform # "" THEN log
                        ELSE AskRegistry(log, k, "search", item, guess)
             on == PlatformOf(k, platform, guess)
         IN  IF on.raises THEN guessed
             ELSE AskRegistry(guessed, k, on.platform, item, answer)

\* whether the default params of _api_get were written for that snapshot
ResolveWrites(k, repo, platform, guess) ==
    /\ ~repo
    /\ ~PlatformOf(k, platform, guess).raises
    /\ ApiCalls(k)

\* compare(item1, item2, platform) for the two snapshots s1 and s2
compare(item1, item2, mode, s1, s2) ==
    IF s1.raises \/ s2.raises THEN Raised("AttributeError")
    ELSE Verdict(item1, item2, s1.snap, s2.snap, mode)

\* the answers of the registry that making a snapshot of an item can meet:
\* none for a repository, none without the credential, no search with a hint
Answers(k, repo, platform) ==
    IF repo \/ ~ApiCalls(k) THEN {<<"transport", "404">>}
    ELSE IF platform # "" THEN {"transport"} \X SnapshotResponses
    ELSE GuessResponses \X SnapshotResponses

\* the second snapshot is not made when the first raises
tool_compare ==
    \E item1 \in Items, platform \in {"", "pypi"} :
      \E item2 \in Items \ {item1} :
        LET repo1 == AsRepo(item1, platform)
            repo2 == AsRepo(item2, platform)
            mode == Mode(item1, item2, platform)
        IN  \E r1 \in Answers(key, repo1, platform), r2 \in Answers(key, repo2, platform) :
              LET s1 == Resolve(key, repo1, item1, platform, r1[1], r1[2])
                  s2 == Resolve(key, repo2, item2, platform, r2[1], r2[2])
                  first == ResolveLog(netlog, key, repo1, item1, platform, r1[1], r1[2])
              IN  ServeCall("compare", <<item1, item2, platform, r1, r2>>,
                        compare(item1, item2, mode, s1, s2),
                        IF s1.raises THEN first
                        ELSE ResolveLog(first, key, repo2, item2, platform, r2[1], r2[2]),
                        \/ ResolveWrites(key, repo1, platform, r1[1])
                        \/ ~s1.raises /\ ResolveWrites(key, repo2, platform, r2[1]))

(***************************************************************************)
(* audit_repo and repo_summary (src/tools/combined.py, lines 8-55).        *)
(***************************************************************************)

\* s.replace(p, "")
RECURSIVE Remove(_, _)
Remove(s, p) ==
    IF Contains(s, p) THEN SplitFirst(s, p)[1] \o Remove(SplitFirst(s, p)[2], p) ELSE s

\* lines 37-39 of audit_repo
AuditRepo(repo) ==
    LET r == RStripBy(Strip(repo), {"/"})
    IN  IF Contains(r, GithubComSlash) THEN Remove(AfterLast(r, GithubComSlash), <<".","g","i","t">>) ELSE r

\* the question of a composite tool, after lower() and split()
AuditQuestion ==
    <<<<"w","h","a","t">>, <<"d","o","e","s">>, <<"t","h","i","s">>, <<"c","o","d","e","b","a","s","e">>, <<"d","o">>, <<"a","n","d">>, <<"h","o","w">>, <<"i","s">>, <<"i","t">>, <<"s","t","r","u","c","t","u","r","e","d">>>>
SummaryQuestion ==
    <<<<"w","h","a","t">>, <<"i","s">>, <<"t","h","e">>, <<"m","a","i","n">>, <<"p","u","r","p","o","s","e">>, <<"a","n","d">>, <<"s","t","r","u","c","t","u","r","e">>, <<"o","f">>, <<"t","h","i","s">>, <<"c","o","d","e","b","a","s","e">>>>

\* the two sections before "Dependency Health", and then check_dependencies
Composite(tl, question) ==
    LET asked == ask_repo(question, SearchResp(hosting), ContentsResp(hosting))
    IN  /\ pc = "idle"
        /\ tool' = tl
        /\ EnterCheckDependencies(tl, <<repo_info(RepoResp(hosting)), asked.text>>,
              AskLog(GhIssue(netlog, "repos", SlugChars(hosting), RepoResp(hosting)),
                     hosting, asked))
        /\ UNCHANGED <<env, default_params, call>>

\* the audit is asked with the slug, or with the URL of the repository
tool_audit_repo ==
    \E repo \in {SlugChars(hosting),
                 <<"h","t","t","p","s",":","/","/","g","i","t","h","u","b",".","c","o","m","/">> \o SlugChars(hosting) \o <<".","g","i","t","/"," ">>} :
        /\ SlugOf(AuditRepo(repo)) = hosting
        /\ Composite("audit_repo", AuditQuestion)

tool_repo_summary == Composite("repo_summary", SummaryQuestion)

Running == {t \in DOMAIN status : status[t] = "running"}

\* a worker of the pool takes the next queued fetch_package and runs _api_get
\* up to its request (lines 137-139 and 28-32)
StartLookup(t) ==
    /\ pc = "fanout"
    /\ status[t] = "queued"
    /\ \A u \in 1..(t - 1) : status[u] # "queued"
    /\ Cardinality(Running) < max_workers
    /\ IF ApiCalls(key)
       THEN /\ status' = [status EXCEPT ![t] = "running"]
            /\ default_params' = TRUE
            /\ params_writers' = params_writers \cup {t}
            /\ netlog' = Issue(netlog, "registry", PACKAGE_FILES(package_docs[file_i][1]),
                               fetch_results[t].name, t, "pending")
            /\ UNCHANGED fetch_results
       ELSE /\ status' = [status EXCEPT ![t] = "done"]
            /\ fetch_results' = [fetch_results EXCEPT ![t].resp = "unasked"]
            /\ UNCHANGED <<default_params, params_writers, netlog>>
    /\ UNCHANGED <<env, pc, tool, package_docs, file_i, all_results, sections, result, call>>

\* the response of a running lookup arrives (lines 33-37 and 140)
CompleteLookup(t) ==
    /\ pc = "fanout"
    /\ status[t] = "running"
    /\ registry = "serial" => \A u \in 1..(t - 1) : status[u] # "running"
    /\ \E resp \in Registry(registry) :
        /\ fetch_results' = [fetch_results EXCEPT ![t].resp = resp]
        /\ netlog' = [i \in DOMAIN netlog |->
                        IF netlog[i].task = t /\ netlog[i].state = "pending"
                        THEN [netlog[i] EXCEPT !.state =
                                 IF IsError(ApiResult(Response(resp))) THEN "failed" ELSE "ok"]
                        ELSE netlog[i]]
    /\ status' = [status EXCEPT ![t] = "done"]
    /\ UNCHANGED <<env, default_params, pc, tool, package_docs, file_i,
                   params_writers, all_results, sections, result, call>>

\* the lines of fetch_results that go to the list named kind, in order
RECURSIVE Entries(_, _, _, _, _)
Entries(k, file, results, n, kind) ==
    IF n = 0 THEN <<>>
    ELSE LET l == EntryLine(file, results[n].name, results[n].version, DataOf(k, results[n]))
         IN  Entries(k, file, results, n - 1, kind) \o (IF l.kind = kind THEN <<l>> ELSE <<>>)

\* the section with the healthy list added before the risky list
Section_HealthyFirst(k, file, results) ==
    Entries(k, file, results, Len(results), "?")
      \o Entries(k, file, results, Len(results), "[ok]")
      \o Entries(k, file, results, Len(results), "[!]")

\* lines 145-169: the lines one manifest adds after its header; the "?"
\* lines go to all_results inside the loop, risky and healthy after it
Section(k, file, results) ==
    Entries(k, file, results, Len(results), "?")
      \o Entries(k, file, results, Len(results), "[!]")
      \o Entries(k, file, results, Len(results), "[ok]")

\* executor.map has every result: lines 145-169, then the loop goes on
Classify ==
    /\ pc = "fanout"
    /\ \A t \in DOMAIN status : status[t] = "done"
    /\ IF \E t \in DOMAIN fetch_results : EntryRaises(DataOf(key, fetch_results[t]))
       THEN /\ Deliver(tool, sections, Text("Error checking dependencies", <<>>))
            /\ UNCHANGED locals
       ELSE /\ Advance(tool, sections, package_docs, file_i + 1,
                       all_results \o Section(key, package_docs[file_i][1], fetch_results))
    /\ UNCHANGED <<env, default_params, tool, netlog, call>>

\* the harness hands the result to the caller and is ready for the next call
Return ==
    /\ pc = "done"
    /\ pc' = "idle"
    /\ tool' = ""
    /\ package_docs' = <<>>
    /\ file_i' = 0
    /\ status' = <<>>
    /\ fetch_results' = <<>>
    /\ params_writers' = {}
    /\ all_results' = <<>>
    /\ sections' = <<>>
    /\ netlog' = <<>>
    /\ result' = NoResult
    /\ call' = <<>>
    /\ UNCHANGED <<env, default_params>>

(***************************************************************************)
(* Specification.                                                          *)
(***************************************************************************)
Idle ==
    /\ default_params = FALSE
    /\ pc = "idle"
    /\ tool = ""
    /\ package_docs = <<>>
    /\ file_i = 0
    /\ status = <<>>
    /\ fetch_results = <<>>
    /\ params_writers = {}
    /\ all_results = <<>>
    /\ sections = <<>>
    /\ netlog = <<>>
    /\ result = NoResult
    /\ call = <<>>

Init ==
    /\ key \in BOOLEAN
    /\ hosting \in Repositories
    /\ registry = "any"
    /\ Idle

\* the steps of check_dependencies
NextDeps ==
    \/ tool_check_dependencies
    \/ \E t \in DOMAIN status : StartLookup(t)
    \/ \E t \in DOMAIN status : CompleteLookup(t)
    \/ Classify
    \/ Return

\* the tools that return within one step
NextTools ==
    \/ tool_ask_repo
    \/ tool_search_code
    \/ tool_get_file
    \/ tool_repo_info
    \/ tool_list_files
    \/ tool_search_packages
    \/ tool_get_package_info
    \/ tool_find_alternatives
    \/ tool_compare

Next ==
    \/ NextTools
    \/ tool_audit_repo
    \/ tool_repo_summary
    \/ NextDeps

Spec == Init /\ [][Next]_vars

\* check_dependencies alone, on a manifest longer than the fan-out bound
InitFan ==
    /\ key \in BOOLEAN
    /\ \/ hosting = "o/large" /\ registry = "serial"
       \/ hosting = "o/medium" /\ registry = "steady"
    /\ Idle

SpecFan == InitFan /\ [][NextDeps]_vars

(***************************************************************************)
(* The functions that are run alone.                                       *)
(***************************************************************************)
\* a function is applied to the arguments in call and returns its value
Apply(f, value) ==
    /\ pc = "idle"
    /\ pc' = "done"
    /\ tool' = f
    /\ result' = value
    /\ UNCHANGED <<env, default_params, locals, sections, netlog, call>>

\* no tool is being served; the arguments are drawn from inputs
Alone(inputs) ==
    /\ key = FALSE
    /\ hosting = "o/none"
    /\ registry = "any"
    /\ default_params = FALSE
    /\ pc = "idle"
    /\ tool = ""
    /\ package_docs = <<>>
    /\ file_i = 0
    /\ status = <<>>
    /\ fetch_results = <<>>
    /\ params_writers = {}
    /\ all_results = <<>>
    /\ sections = <<>>
    /\ netlog = <<>>
    /\ result = NoResult
    /\ call \in inputs

\* the release dates: up to MaxDays days before now and FutureDays days after
\* it, at the start and in the last hour of a day, and what is no timestamp
MaxDays == 61
FutureDays == 31
Dates ==
    {JTime(Now - d * HoursPerDay - h) : d \in (-FutureDays)..MaxDays, h \in {0, HoursPerDay - 1}}
      \cup {JStr(""), JStr("bad"), JNull}

\* _months_since of two dates, for the same now
months_since_twice == Apply("_months_since", <<_months_since(call[1]), _months_since(call[2])>>)

InitMonths == Alone(Dates \X Dates)

SpecMonths == InitMonths /\ [][months_since_twice]_vars

\* the strings of up to n characters of cs
RECURSIVE Strings(_, _)
Strings(cs, n) ==
    IF n = 0 THEN {<<>>}
    ELSE Strings(cs, n - 1) \cup {Append(w, c) : w \in Strings(cs, n - 1), c \in cs}

\* the contents of one line, and of one line followed by a line of second
Contents1or2(first, second) ==
    {<<l>> : l \in first} \cup {<<l \o <<"\n">> \o m>> : l \in first, m \in second}

\* lines of a requirements.txt: every line of up to MaxReqLine characters of
\* a name and the two operators, and lines with blanks, comments and options
MaxReqLine == 5
ReqSamples ==
    {<<>>,
     <<" ">>,
     <<"#"," ","a">>,
     <<"-","r"," ","a">>,
     <<"b"," ",">","="," ","2"," ">>,
     <<" ","a"," ","=","="," ","1","\r">>,
     <<"a","<","=","2">>,
     <<"a",">","=","1",",","=","=","2">>}
ReqLines == Strings({"a", "=", ">"}, MaxReqLine) \cup ReqSamples

\* _extract_packages("requirements.txt", content)
extract_requirements == Apply("requirements.txt", _extract_packages("requirements.txt", call[1]))

InitRequirements == Alone(Contents1or2(ReqLines, ReqSamples))

SpecRequirements == InitRequirements /\ [][extract_requirements]_vars

\* the contents of up to n lines of ls
RECURSIVE ContentsUpTo(_, _)
ContentsUpTo(ls, n) ==
    IF n = 1 THEN ls
    ELSE ContentsUpTo(ls, n - 1)
           \cup {c \o <<"\n">> \o l : c \in ContentsUpTo(ls, n - 1), l \in ls}

\* lines of a Cargo.toml: the two dependency headers, other headers, an
\* entry, a line without "=", a comment with "=" and a blank line
MaxCargoLines == 4
CargoSamples ==
    {<<"[","d","e","p","e","n","d","e","n","c","i","e","s","]">>,
     <<" ","[","d","e","v","-","d","e","p","e","n","d","e","n","c","i","e","s","]","\r">>,
     <<"[","p","a","c","k","a","g","e","]">>,
     <<"[","d","e","p","e","n","d","e","n","c","i","e","s",".","b","]">>,
     <<"a"," ","="," ","\"","1","\"">>,
     <<"b">>,
     <<"#"," ","c","=","2">>,
     <<>>}

\* _extract_packages("Cargo.toml", content)
extract_cargo == Apply("Cargo.toml", _extract_packages("Cargo.toml", call[1]))

InitCargo == Alone({<<c>> : c \in ContentsUpTo(CargoSamples, MaxCargoLines)})

SpecCargo == InitCargo /\ [][extract_cargo]_vars

(***************************************************************************)
(* Properties.                                                             *)
(***************************************************************************)
\* the text check_dependencies returned, also inside a composite tool
DepsText ==
    IF tool \in {"audit_repo", "repo_summary"} THEN sections[Len(sections)] ELSE result

\* the step that ends executor.map and formats the section of a manifest
Classified == pc = "fanout" /\ (pc' # pc \/ all_results' # all_results)

\* the lines that step adds for the manifest
NewLines == SubSeq(all_results', Len(all_results) + 1, Len(all_results) + Len(fetch_results))

\* the lookup behind a fetch result failed: no credential, a transport error,
\* a status other than 200, a body that is not JSON or that has an "error" key
LookupFailed(f) ==
    \/ ~key
    \/ Response(f.resp).kind # "http"
    \/ Response(f.resp).status # 200
    \/ Response(f.resp).json.t = "error"

\* the lookup succeeded with a body the classification cannot read
Malformed(f) ==
    /\ ~LookupFailed(f)
    /\ \/ Response(f.resp).json.t \in {"null", "list"}
       \/ Get(Response(f.resp).json.pkg.contributions_count, JInt(0)).t \notin {"int", "bool"}

LineNames(lines) == [i \in DOMAIN lines |-> lines[i].name]

\* C1: every tool returns a text; no exception leaves a tool, whatever the
\* arguments and whatever the APIs answer
C1_NoExceptionLeavesATool == result.kind # "raise"

\* C2: failed lookups are isolated: unless a successful lookup brought a body
\* that cannot be read, the invocation does not end in the error line, every
\* failed package gets its "?" line, and the other lines of the section are
\* the lines the section has when the failed packages are left out
C2_FailureIsolated ==
    [][Classified /\ (\A t \in DOMAIN fetch_results : ~Malformed(fetch_results[t]))
         => /\ pc' = "done" => DepsText'.tag = "report"
            /\ LET file == package_docs[file_i][1]
                   failed == SelectSeq(fetch_results, LookupFailed)
                   others == SelectSeq(fetch_results, LAMBDA f : ~LookupFailed(f))
               IN  /\ SubSeq(NewLines, 1, Len(failed))
                        = [i \in DOMAIN failed |-> Line("?", file, failed[i].name, <<>>, <<>>)]
                   /\ SubSeq(NewLines, Len(failed) + 1, Len(NewLines))
                        = Section(key, file, others)]_vars

\* a report in which one package could not be fetched and another one is
\* classified
C2_Witness ==
    /\ key
    /\ pc = "done"
    /\ DepsText.tag = "report"
    /\ \E i, j \in DOMAIN DepsText.lines :
         /\ DepsText.lines[i].kind = "?"
         /\ DepsText.lines[j].kind \in {"[!]", "[ok]"}
         /\ DepsText.lines[i].file = DepsText.lines[j].file

\* C3: without the credential every registry-backed tool returns the fixed
\* configuration error and makes no request at all
C3_ConfigurationErrorWithoutNetwork ==
    (/\ ~key
     /\ pc = "done"
     /\ \/ tool \in {"search_packages", "get_package_info", "find_alternatives",
                     "check_dependencies"}
        \/ /\ tool = "compare"
           /\ \E i \in DOMAIN result.lines : result.lines[i].file # "github")
      => /\ result = ErrorText("Error", "LIBRARIES_IO_API_KEY not set")
         /\ netlog = <<>>

\* the kind C4 gives to a fetch result
ClaimedKind(f) ==
    IF LookupFailed(f) THEN "?"
    ELSE LET pkg == Response(f.resp).json.pkg
             months == _months_since(Get(pkg.latest_release_published_at, JStr("")))
         IN  IF \/ Truthy(Get(pkg.deprecated, JBool(FALSE)))
                \/ months.some /\ months.v > 12
                \/ Get(pkg.contributions_count, JInt(0)).n < 2
             THEN "[!]"
             ELSE "[ok]"

\* C4: in the section of a manifest a package is "?" when its lookup failed,
\* "[!]" when it is deprecated, or released more than 12 months ago, or has
\* fewer than 2 contributors, and "[ok]" otherwise; a deprecated package and
\* one with 1 contributor released 3 months ago are risky, one with 5
\* contributors released 6 months ago is healthy
C4_Classification ==
    [][Classified /\ ~(pc' = "done" /\ DepsText'.tag # "report")
         => /\ \A kind \in {"?", "[!]", "[ok]"} :
                 LineNames(SelectSeq(NewLines, LAMBDA l : l.kind = kind))
                   = LineNames(SelectSeq(fetch_results, LAMBDA f : ClaimedKind(f) = kind))
            /\ \A t \in DOMAIN fetch_results :
                 /\ key /\ fetch_results[t].resp \in {"deprecated", "few"}
                      => \E i \in DOMAIN NewLines :
                            NewLines[i].kind = "[!]" /\ NewLines[i].name = fetch_results[t].name
                 /\ key /\ fetch_results[t].resp = "healthy"
                      => \E i \in DOMAIN NewLines :
                            NewLines[i].kind = "[ok]" /\ NewLines[i].name = fetch_results[t].name]_vars

\* a report made of a package released 12 months ago and one released 13
\* months ago, both with 2 contributors
C4_Witness ==
    /\ key
    /\ pc = "done"
    /\ DepsText.tag = "report"
    /\ \E t, u \in DOMAIN fetch_results :
         /\ fetch_results[t].resp = "year"
         /\ fetch_results[u].resp = "stale"
    /\ \E i, j \in DOMAIN DepsText.lines :
         /\ DepsText.lines[i].kind = "[!]"
         /\ DepsText.lines[j].kind = "[ok]"

\* the names a manifest of package_docs declares
Declared(file) ==
    UNION {{_extract_packages(file, package_docs[j][2])[n][1] :
              n \in DOMAIN _extract_packages(file, package_docs[j][2])} :
           j \in {m \in DOMAIN package_docs : package_docs[m][1] = file}}

\* C5: in a section no healthy line comes before a risky line, and every
\* line of a section is a package of the manifest the section is headed by
C5_RiskyFirst ==
    \A i \in DOMAIN all_results :
        /\ all_results[i].kind = "[ok]" /\ i < Len(all_results)
             => all_results[i + 1].kind \in {"[ok]", "header"}
        /\ all_results[i].kind # "header"
             => /\ i > 1
                /\ all_results[i].file = all_results[i - 1].file
                /\ all_results[i].name \in Declared(all_results[i].file)
        /\ all_results[i].kind = "header"
             => \A j \in DOMAIN all_results :
                   all_results[j].kind = "header" /\ j # i
                     => all_results[j].file # all_results[i].file

\* a report with two sections, one of them with a risky and a healthy line
C5_Witness ==
    /\ pc = "done"
    /\ DepsText.tag = "report"
    /\ Cardinality({i \in DOMAIN all_results : all_results[i].kind = "header"}) >= 2
    /\ \E i \in DOMAIN all_results :
         /\ i < Len(all_results)
         /\ all_results[i].kind = "[!]"
         /\ all_results[i + 1].kind = "[ok]"

\* the registry requests of the invocation, in the order they were issued
Lookups == SelectSeq(netlog, LAMBDA r : r.api = "registry")

\* C6: a manifest gets one lookup for each of its first 20 packages, in the
\* order of declaration, never more than 10 of them are in flight, and its
\* section gets no line before every lookup has returned
C6_BoundedFanOut ==
    pc = "fanout" =>
        LET pkgs == _extract_packages(package_docs[file_i][1], package_docs[file_i][2])
        IN  /\ Len(fetch_results) = Min(20, Len(pkgs))
            /\ \A t \in DOMAIN fetch_results : fetch_results[t].name = pkgs[t][1]
            /\ Len(Lookups) <= Len(fetch_results)
            /\ \A i \in DOMAIN Lookups : Lookups[i].task = i /\ Lookups[i].arg = pkgs[i][1]
            /\ Cardinality({i \in DOMAIN Lookups : Lookups[i].state = "pending"}) <= 10
            /\ all_results[Len(all_results)].kind = "header"

\* a manifest of more than 20 packages with 10 lookups in flight and others
\* waiting
C6_Witness ==
    /\ pc = "fanout"
    /\ Len(_extract_packages(package_docs[file_i][1], package_docs[file_i][2])) > 20
    /\ Cardinality({i \in DOMAIN Lookups : Lookups[i].state = "pending"}) = 10
    /\ \E t \in DOMAIN status : status[t] = "queued"
    /\ \E t \in DOMAIN status : status[t] = "done"

\* C7: the lookups of a fan-out share no mutable object: nothing is written
\* by two of them
C7_NoSharedMutableState == Cardinality(params_writers) <= 1

\* the content of package_docs for a file name
ContentOf(file) ==
    package_docs[CHOOSE j \in DOMAIN package_docs : package_docs[j][1] = file][2]

\* C8: a manifest whose parsing raised gives no package: the report has no
\* section for it
C8_NoPartialParse ==
    \A i \in DOMAIN all_results :
        all_results[i].kind = "header"
          => ~ParseRaises(all_results[i].file, ContentOf(all_results[i].file))

\* C9: package_docs holds a file name exactly when the file was fetched and
\* decoded without error, and then its value is the decoded text
C9_OnlyDecodedFiles ==
    pc = "fanout" =>
        \A f \in DOMAIN Repository(hosting) :
            LET resp == Repository(hosting)[f]
                decoded == /\ ~GetFails(resp)
                           /\ resp.json.t = "dict"
                           /\ resp.json.encoding = "base64"
                           /\ resp.json.decodes
            IN  /\ decoded <=> \E j \in DOMAIN package_docs : package_docs[j][1] = f
                /\ decoded => ContentOf(f) = resp.json.text

\* C10: a request that failed is never issued again in the same invocation
C10_NoRetry == \A i \in DOMAIN netlog : ~netlog[i].reissue


\* compare has returned or raised
Compared == tool = "compare" /\ pc = "done"

\* the item contains the host name of the hosting site
HasHostName(item) ==
    \E i \in 1..(Len(item) - Len(GithubCom) + 1) :
        SubSeq(item, i, i + Len(GithubCom) - 1) = GithubCom

\* the item has the shape owner/name
OwnerSlashName(item) ==
    \E i \in 2..(Len(item) - 1) :
        /\ item[i] = "/"
        /\ \A k \in (1..Len(item)) \ {i} : item[k] \in WordChars \cup {".", "-"}

\* the kind compare is to give an item for a platform hint
ItemKind(item, platform) ==
    IF platform = "" /\ (HasHostName(Strip(item)) \/ OwnerSlashName(Strip(item)))
    THEN "repo" ELSE "package"

\* the platform of the top hit of the search answered by guess, in lower
\* case, and npm when the search fails or has no hit with a platform
TopHitPlatform(guess) ==
    LET r == Response(guess)
    IN  IF /\ key /\ r.kind = "http" /\ r.status = 200
           /\ r.json.t = "list" /\ r.json.items # <<>>
           /\ r.json.items[1].platform.t = "str"
        THEN Lower(r.json.items[1].platform.s)
        ELSE "npm"

\* the platform an item is looked up on: "github" for a repository
ItemPlatform(item, platform, guess) ==
    IF ItemKind(item, platform) = "repo" THEN "github"
    ELSE IF platform # "" THEN platform
    ELSE TopHitPlatform(guess)

\* C11: with a platform hint both items of compare are package snapshots on
\* that platform and neither the hosting site nor the search is asked; without
\* a hint an item is a repository snapshot exactly if it contains the host
\* name or has the shape owner/name, otherwise a package snapshot on the
\* platform of the top search hit, or on npm when the search fails or has no
\* hit; the kind of an item depends on that item alone
C11_KindsResolved ==
    Compared =>
        LET item == <<call[1], call[2]>>
            platform == call[3]
            guess == <<call[4][1], call[5][1]>>
        IN  /\ platform # "" =>
                \A n \in DOMAIN netlog :
                    netlog[n].api = "registry" /\ netlog[n].kind = platform
            /\ result.kind = "text" =>
                \A i \in 1..2 :
                    /\ result.lines[i].name = item[i]
                    /\ result.lines[i].file = ItemPlatform(item[i], platform, guess[i])
            /\ \A n \in DOMAIN netlog :
                \E i \in 1..2 :
                    IF netlog[n].api = "github"
                    THEN /\ ItemKind(item[i], platform) = "repo"
                         /\ netlog[n].kind = "repos"
                    ELSE /\ ItemKind(item[i], platform) = "package"
                         /\ netlog[n].arg = item[i]
                         /\ netlog[n].kind
                              \in {"search", ItemPlatform(item[i], platform, guess[i])}
            /\ \A i \in 1..2 :
                (ItemKind(item[i], platform) = "repo" /\ (i = 1 \/ result.kind = "text"))
                    => \E n \in DOMAIN netlog : netlog[n].api = "github"

\* a repository given by its URL is compared with a package whose platform
\* the search found
C11_Witness ==
    /\ Compared
    /\ key
    /\ result.kind = "text"
    /\ call[3] = ""
    /\ HasHostName(call[1])
    /\ result.lines[1].file = "github"
    /\ call[5][1] = "onehit"
    /\ result.lines[2].file = "pypi"

\* the answer the snapshot of the i-th item of compare is made of
ItemAnswer(i) ==
    IF ItemKind(call[i], call[3]) = "repo"
    THEN RepoResp(SlugOf(SnapshotRepo(call[i])))
    ELSE Response(call[3 + i][2])

\* the i-th item resolved without error
Resolved(i) ==
    /\ ItemKind(call[i], call[3]) = "package" => key
    /\ ItemAnswer(i).kind = "http"
    /\ ItemAnswer(i).status = 200
    /\ ItemAnswer(i).json.t = "dict"

\* the star count of the i-th item: 0 when a package has none
ItemStars(i) ==
    IF ItemKind(call[i], call[3]) = "repo" THEN ItemAnswer(i).json.stars.n
    ELSE Get(ItemAnswer(i).json.pkg.stars, JInt(0)).n

\* the months since the latest release of the i-th item, when it is a package
ItemMonths(i) ==
    _months_since(Get(ItemAnswer(i).json.pkg.latest_release_published_at, JStr("")))

\* C12: compare appends a "More popular" line exactly if both snapshots
\* resolved without error; it names the item with more stars and the first
\* item on a tie. A "More recently updated" line follows exactly if moreover
\* both are package snapshots whose months since the latest release are
\* known; it names the item with fewer months and the first item on a tie.
\* No verdict line is appended when either snapshot is an error
C12_Verdicts ==
    (Compared /\ result.kind = "text") =>
        LET both == Resolved(1) /\ Resolved(2)
            dated ==
                /\ both
                /\ \A i \in 1..2 :
                    ItemKind(call[i], call[3]) = "package" /\ ItemMonths(i).some
        IN  SubSeq(result.lines, 3, Len(result.lines))
              = (IF both
                 THEN <<Line("More popular", "",
                             IF ItemStars(2) > ItemStars(1) THEN call[2] ELSE call[1],
                             <<>>, <<>>)>>
                 ELSE <<>>)
                \o (IF dated
                    THEN <<Line("More recently updated", "",
                                IF ItemMonths(2).v < ItemMonths(1).v THEN call[2] ELSE call[1],
                                <<>>, <<>>)>>
                    ELSE <<>>)

\* two packages with as many stars, the second one released more recently
C12_Witness ==
    /\ Compared
    /\ result.kind = "text"
    /\ Len(result.lines) = 4
    /\ ItemStars(1) = ItemStars(2)
    /\ ItemMonths(2).v < ItemMonths(1).v
    /\ result.lines[3].name = call[1]
    /\ result.lines[4].name = call[2]

\* a composite tool has returned
Composed == tool \in {"audit_repo", "repo_summary"} /\ pc = "done"

\* the three sub-calls of a composite tool that failed, by section
FailedSections ==
    {i \in DOMAIN sections :
        \/ i = 1 /\ sections[i].tag # "repo_info"
        \/ i = 2 /\ sections[i].tag # "Relevant code"
        \/ i = 3 /\ sections[i].tag = "Error checking dependencies"}

\* C13: audit_repo and repo_summary do not fail as a whole: whichever of
\* repo info, ask_repo and check_dependencies fail, the tool returns a report
\* with the three sections in the order info, overview, dependency health;
\* each section is the text its own sub-call returns for the repository, an
\* error text if that sub-call failed, whatever happened to the other two
C13_NoAtomicFailure ==
    Composed =>
        /\ result = Text(tool, <<>>)
        /\ Len(sections) = 3
        /\ sections[1] = repo_info(RepoResp(hosting))
        /\ sections[2]
             = ask_repo(IF tool = "audit_repo" THEN AuditQuestion ELSE SummaryQuestion,
                        SearchResp(hosting), ContentsResp(hosting)).text
        /\ sections[3].kind = "text"
        /\ sections[3].tag
             \in {"report", "No package files found", "Error checking dependencies"}
        /\ sections[3].tag = "report" => sections[3].lines = all_results
        /\ sections[3].tag # "report" => sections[3].lines = <<>>
        /\ GetFails(RepoResp(hosting)) => 1 \in FailedSections
        /\ GetFails(SearchResp(hosting)) => 2 \in FailedSections

\* the repository request fails, the overview and the dependency report are
\* there all the same
C13_Witness ==
    /\ Composed
    /\ FailedSections = {1}
    /\ sections[3].tag = "report"
    /\ sections[3].lines # <<>>

\* v is a timestamp that can be parsed
Parsable(v) == v.t = "str" /\ v.s = "iso"

\* the whole days from the instant of hour h to now
WholeDays(h) == (Now - h) \div HoursPerDay

\* the whole days divided by 30, truncated toward zero
MonthsOf(h) ==
    IF WholeDays(h) >= 0 THEN WholeDays(h) \div 30 ELSE -((-WholeDays(h)) \div 30)

\* C14: for a fixed now and two timestamps T1 < T2 that are both in the past,
\* _months_since(T1) >= _months_since(T2); the value is the whole-day
\* difference divided by 30 and truncated toward zero, and it is null for an
\* empty or unparsable timestamp
C14_MonthsMonotonic ==
    (tool = "_months_since" /\ pc = "done") =>
        /\ \A i \in 1..2 :
            IF Parsable(call[i]) THEN result[i] = Some(MonthsOf(call[i].n))
            ELSE result[i] = None
        /\ (/\ Parsable(call[1]) /\ Parsable(call[2])
            /\ call[1].n < call[2].n /\ call[2].n <= Now)
              => /\ result[1].some /\ result[2].some
                 /\ result[1].v >= result[2].v

\* two timestamps in the past, a month or more apart
C14_Witness ==
    /\ tool = "_months_since" /\ pc = "done"
    /\ Parsable(call[1]) /\ Parsable(call[2])
    /\ call[1].n < call[2].n /\ call[2].n < Now
    /\ result[2].some /\ result[2].v > 0
    /\ result[1].some /\ result[1].v > result[2].v

\* the lines of a manifest that are not blank, stripped
RECURSIVE Stripped(_)
Stripped(lines) ==
    IF lines = <<>> THEN <<>>
    ELSE (IF Strip(Head(lines)) = <<>> THEN <<>> ELSE <<Strip(Head(lines))>>)
           \o Stripped(Tail(lines))

\* the lines of a requirements.txt that name a package
Requirement(line) == line[1] \notin {"#", "-"}

ExactPin == <<"=", "=">>
MinimumBound == <<">", "=">>

\* C15: requirements.txt: every non-blank line that is no comment and no
\* option gives exactly one entry, in line order; the constraint of the entry
\* starts with the operator (== or >=) present in the line, the line is split
\* at its first occurrence so that the name holds no such operator, and the
\* constraint is empty if the line has neither operator
C15_RequirementsOperators ==
    (tool = "requirements.txt" /\ pc = "done") =>
        LET lines == SelectSeq(Stripped(SplitOn(call[1], "\n")), Requirement)
        IN  /\ Len(result) = Len(lines)
            /\ \A i \in DOMAIN lines :
                LET name == result[i][1]
                    constraint == result[i][2]
                IN  IF ~Contains(lines[i], ExactPin) /\ ~Contains(lines[i], MinimumBound)
                    THEN name = lines[i] /\ constraint = <<>>
                    ELSE /\ \E op \in {ExactPin, MinimumBound} :
                              /\ Contains(lines[i], op)
                              /\ StartsWith(constraint, op)
                              /\ name = Strip(SplitFirst(lines[i], op)[1])
                         /\ ~Contains(name, ExactPin)
                         /\ ~Contains(name, MinimumBound)

\* the line opens a dependency section
OpensDependencies(line) ==
    Strip(line) \in {<<"[","d","e","p","e","n","d","e","n","c","i","e","s","]">>,
                     <<"[","d","e","v","-","d","e","p","e","n","d","e","n","c","i","e","s","]">>}

\* the line is a section header
SectionHeader(line) == Strip(line) # <<>> /\ Strip(line)[1] = "["

\* the flag "inside a dependency section" when line k is read
RECURSIVE InsideDependencies(_, _)
InsideDependencies(lines, k) ==
    IF k = 1 THEN FALSE
    ELSE IF OpensDependencies(lines[k - 1]) THEN TRUE
    ELSE IF SectionHeader(lines[k - 1]) THEN FALSE
    ELSE InsideDependencies(lines, k - 1)

\* the lines of a Cargo.toml that are to give an entry
Entry(lines) ==
    {k \in DOMAIN lines :
        /\ InsideDependencies(lines, k)
        /\ ~SectionHeader(lines[k])
        /\ \E j \in DOMAIN lines[k] : lines[k][j] = "="}

\* C16: Cargo.toml is scanned with a flag that starts false, becomes true on
\* a line equal to [dependencies] or [dev-dependencies], false on any other
\* line starting with "[" and is left alone by every other line; a line gives
\* an entry exactly if the flag is true when it is read, it is no section
\* header and it contains "="; no entry comes from a line outside a
\* dependency section, and the entries follow line order
C16_CargoSections ==
    (tool = "Cargo.toml" /\ pc = "done") =>
        LET lines == SplitOn(call[1], "\n")
        IN  /\ Len(result) = Cardinality(Entry(lines))
            /\ \A k \in Entry(lines) :
                result[Cardinality({j \in Entry(lines) : j <= k})][1]
                    = Strip(SplitFirst(Strip(lines[k]), <<"=">>)[1])

\* an entry of a dependency section is emitted and a line with "=" after the
\* section was left is not
C16_Witness ==
    /\ tool = "Cargo.toml" /\ pc = "done"
    /\ Len(result) = 1
    /\ LET lines == SplitOn(call[1], "\n")
       IN  /\ Len(lines) = MaxCargoLines
           /\ OpensDependencies(lines[1])
           /\ Entry(lines) = {2}
           /\ SectionHeader(lines[3])
           /\ lines[4] = lines[2]

====
